---- MODULE Spec2Model ----
(***************************************************************************)
(* dfcached: the commit protocol of persist_cache.wrapper for one cache    *)
(* entry (one function identity, one fingerprint), as run by several       *)
(* concurrent callers.  The entry directory holds the leaf files           *)
(* "<i>.pkl", manifest.json and manifest.json.tmp; the lock file is the    *)
(* sibling "<key>.lock".                                                   *)
(*                                                                         *)
(* Values: the wrapped computation is opaque, so its k-th execution        *)
(* returns a result of n leaves, each carrying the fresh value k.  Any     *)
(* equality between results that holds for fresh values holds for every    *)
(* computation.  Leaf i of every commit is the file "<i>.pkl" (the same    *)
(* function returns leaves of the same kind at the same index).            *)
(*                                                                         *)
(* Steps: every system call that another caller can observe is a step of   *)
(* its own (exists, read_text, each leaf load, the exclusive create, each  *)
(* open(.., "wb") and each dump/close, the write of the temporary          *)
(* manifest, os.replace, unlink).  mkdir is taken together with the miss   *)
(* that leads to it: nobody reads the directory.                           *)
(***************************************************************************)
EXTENDS Integers, Sequences, FiniteSets, TLC

\* ---------------------------------------------------------------- bounds
NProcs == 2         \* concurrent callers (threads or processes)
MaxCalls == 3       \* calls made in all
MaxLeaves == 2      \* leaf files of one result
MaxEnv == 1         \* modifications of the entry by an external actor
MaxICalls == 2      \* calls made in all on the checksum-aware entry (SpecI)
MaxVal == 1         \* positional argument values "1".."MaxVal" (SpecK)
NCallers == 3       \* concurrent callers over several fingerprints (SpecM)
NKeys == 2          \* fingerprints of one function in use at a time (SpecM)
MaxMCalls == 3      \* calls made in all over those fingerprints (SpecM)
MaxItems == 2       \* items of a tuple, list or mapping result (SpecR)
MaxDOps == 3        \* calls made before an entry is removed (SpecD)
NFrames == 2        \* wrapper frames alive at a time, nested ones included (SpecL)
MaxLCalls == 3      \* calls made in all, nested ones included (SpecL)
MaxCrash == 1       \* processes killed while they hold the lock (SpecL)
MaxLEnv == 1        \* modifications of the entry by an external actor (SpecL)

Procs == 1..NProcs
None == 0           \* no lock file
LeafIdx == 1..MaxLeaves
NoLeaf == [st |-> "absent", c |-> 0]
NoFile == [st |-> "absent", c |-> 0, n |-> 0]

VARIABLES
    dirExists,      \* the entry directory exists (base.mkdir)
    lock,           \* lock file: None, or the pid written into it
    leaves,         \* leaf file i: [st, c] (state, commit that wrote it)
    manifest,       \* manifest.json: [st, c, n] (state, commit, number of items)
    tmp,            \* manifest.json.tmp: [st, c, n]
    pc,             \* position of each caller in wrapper
    refresh,        \* the refresh option of the caller's current call
    held,           \* caller is inside the with _DirLock block
    meta,           \* manifest the caller has read (json.loads)
    acc,            \* leaves the caller has loaded so far (_load_result)
    result,         \* result of func(): [c, n]
    idx,            \* index of the leaf _save_result is writing
    outcome,        \* how the call ends
    ncalls,         \* calls started so far
    started,        \* callers 1..started have made a call
    firstReturned,  \* history: the value of the first call that returned
    execs,          \* history: executions of func in the current call
    writes,         \* history: kinds of file the current call created/changed/removed
    missed,         \* history: probes of the current call that were a miss
    pubValid,       \* history: the manifest this call published was valid at the rename
    computeCount,   \* history: executions of func so far (commit ids)
    envCount,       \* history: external modifications so far
    disturbed       \* history: some call had refresh=true, or func or the
                    \* commit raised in some call

\* The entry as the checksum-aware codec of _io.py reads and writes it, used
\* by one caller at a time (specification SpecI, further down)
VARIABLES
    iLock,          \* lock file of the entry: None, or the pid written into it
    iLeaves,        \* leaf file i: [st, c, sz] (state, content, size in bytes)
    iManifest,      \* manifest.json: [st, c, container, items]
    iTmp,           \* manifest.json.tmp
    iPc,            \* position of the caller
    iOpts,          \* options of the wrapper the call goes through
    iHeld,          \* the caller is inside the lock
    iMeta,          \* manifest the caller has read
    iAcc,           \* leaves loaded so far by load_result
    iResult,        \* result of func(): [c, container, n]
    iOut,           \* `out` of save_result: descriptors of the leaves written
    iOutcome,       \* how the call ends
    iExecs,         \* history: executions of func in the current call
    iBefore,        \* history: manifest and leaves when the call started
    iFound,         \* history: a check of the current call found a mismatch
    iChecked,       \* history: leaves whose digest the current call computed
    iCount,         \* history: executions of func so far (content ids)
    iEnv,           \* history: external modifications so far
    iCalls          \* history: calls made so far

integVars == <<iLock, iLeaves, iManifest, iTmp, iPc, iOpts, iHeld, iMeta, iAcc,
               iResult, iOut, iOutcome, iExecs, iBefore, iFound, iChecked,
               iCount, iEnv, iCalls>>

\* The cache root as a sequence of calls sees it: one directory per function
\* identity and key (specification SpecK, further down)
VARIABLES
    kPhase,         \* "new", then "decorated", "called", "called_twice"
    kOpts,          \* options of persist_cache: exclude_from_key,
                    \* canonicalize_kwargs, key_fn
    kStore,         \* the entries under cache_root: {[base, val]}
    kFirst,         \* the first call: its arguments, key, base, outcome, value
    kSecond,        \* the second call
    kCount          \* executions of the wrapped functions so far

keyVars == <<kPhase, kOpts, kStore, kFirst, kSecond, kCount>>

\* The entries of one function under cache_root as concurrent callers of
\* several fingerprints see them (specification SpecM, further down)
VARIABLES
    mFs,            \* path -> what is there: nothing, a directory, or a file
                    \* with the caller that wrote it
    mPc,            \* caller -> position in wrapper
    mKey,           \* caller -> fingerprint of its call
    mCalls          \* calls made so far

multiVars == <<mFs, mPc, mKey, mCalls>>

\* One result on its way through the codec of _io.py: save_result into an
\* empty entry directory, then load_result (specification SpecR, further down)
VARIABLES
    rPhase,         \* "new", then "encoded", "decoded"
    rValue,         \* the value handed to save_result
    rFiles,         \* file name -> content, the entry directory
    rManifest,      \* the meta save_result returned, as read back from JSON
    rOut            \* what load_result returned or raised

roundVars == <<rPhase, rValue, rFiles, rManifest, rOut>>

\* The cache root as the administrative helpers of utils.py see it: the
\* children of each function directory (specification SpecD, further down)
VARIABLES
    dTree,          \* [qual, name] -> "absent", "file", "dir" (a key
                    \* directory without manifest) or "entry" (with manifest)
    dVal,           \* [qual, name] -> commit whose manifest the entry holds
    dOps,           \* calls made so far
    dPhase,         \* "calls", then "cleared"
    dBefore,        \* history: dTree, dVal and the counts before clear
    dArgs,          \* history: the arguments of clear
    dRemoved        \* what clear returned

adminVars == <<dTree, dVal, dOps, dPhase, dBefore, dArgs, dRemoved>>

\* One entry and its lock over the life of the processes that use it:
\* calls made from inside func, processes killed under the lock, lock files
\* removed by hand (specifications SpecL and SpecLF, further down)
VARIABLES
    lLock,          \* lock file: None, or the frame that created it
    lManifest,      \* manifest.json: "absent", "ok" or "bad" (does not decode)
    lPc,            \* frame -> position in wrapper, "crashed" when its
                    \* process was killed
    lRefresh,       \* frame -> the refresh option of its wrapper
    lParent,        \* frame -> the frame whose func called it, or 0
    lOutcome,       \* frame -> how its call ended
    lStaleAt,       \* history: frame -> it reached lock acquisition while
                    \* the lock file of a killed process was there
    lCalls,         \* calls made so far
    lCrashes,       \* processes killed so far
    lEnv            \* external modifications so far

lifeVars == <<lLock, lManifest, lPc, lRefresh, lParent, lOutcome,
              lStaleAt, lCalls, lCrashes, lEnv>>

\* the variables of the other specifications of this module
extVars == <<integVars, keyVars, multiVars, roundVars, adminVars, lifeVars>>

fsVars == <<dirExists, lock, leaves, manifest, tmp>>
histVars == <<computeCount, envCount, disturbed, started>>

vars == <<dirExists, lock, leaves, manifest, tmp, pc, refresh, held, meta, acc,
          result, idx, outcome, ncalls, started, execs, writes, missed,
          pubValid, firstReturned, computeCount, envCount, disturbed>>

\* what the actions of SpecI and of SpecK leave alone
othersI == <<vars, keyVars, multiVars, roundVars, adminVars, lifeVars>>
othersK == <<vars, integVars, multiVars, roundVars, adminVars, lifeVars>>
othersM == <<vars, integVars, keyVars, roundVars, adminVars, lifeVars>>
othersR == <<vars, integVars, keyVars, multiVars, adminVars, lifeVars>>
othersD == <<vars, integVars, keyVars, multiVars, roundVars, lifeVars>>
othersL == <<vars, integVars, keyVars, multiVars, roundVars, adminVars>>

\* ------------------------------------------------------- pure helpers

\* manifest.exists()
Exists(m) == m.st # "absent"

\* json.loads(manifest.read_text()) succeeds
IsMeta(m) == m.st = "ok"

\* variant: the refresh option is not consulted
ProbeHitIgnoresRefresh(r, exists) == exists

\* `if not refresh and manifest.exists()`
ProbeHit(r, exists) == ~r /\ exists

\* variant: the lock file is opened without O_EXCL
CanCreateNoExcl(l) == TRUE

\* os.open(lock, O_CREAT | O_EXCL | O_WRONLY) succeeds iff the file is absent
CanCreate(l) == l = None

\* variant: the timeout path unlinks the lock file
LockRemovedOnTimeout(l) == None

\* lock file after TimeoutError leaves __enter__: __exit__ is not run
LockAfterTimeout(l) == l

\* variant: __exit__ closes the descriptor and leaves the file
LockKeptOnExit(l) == l

\* __exit__: if self.lock.exists(): os.unlink(self.lock)
LockAfterExit(l) == None

\* variant: no try/except around the read, the exception propagates
DecodeErrorPropagates(h) ==
    IF h THEN [pc |-> "exit", outcome |-> "decode_error"]
         ELSE [pc |-> "done", outcome |-> "decode_error"]

\* `except Exception: pass` around json.loads/_load_result: a failed read
\* falls through, to mkdir before the lock and to func() under the lock
AfterDecodeError(h) ==
    IF h THEN [pc |-> "compute", outcome |-> "none"]
         ELSE [pc |-> "acquire", outcome |-> "none"]

\* the manifest parses as JSON and its "container" is none of df, tuple,
\* list, dict, other: _load_result falls through to its last line
UnknownContainer(m) == m.st = "unknown"

\* pickle.load / read_parquet of leaf file f succeeds
LeafLoads(f) == f.st = "full"

\* leaf file after open(p, "wb"): created, or truncated in place
LeafAfterOpen(f, c) == [st |-> "partial", c |-> c]

\* the value a call returns after func(): n leaves of commit c
CommitValue(m) == [i \in 1..m.n |-> m.c]

\* manifest m is valid: all its leaves are fully written by its commit
ValidManifest(m, lv) ==
    \A i \in 1..m.n : lv[i].st = "full" /\ lv[i].c = m.c

\* the checksum-aware entry before the first call: no file
NoStamped == [st |-> "absent", c |-> 0, sz |-> 0]
NoManifest == [st |-> "absent", c |-> 0, container |-> "none", items |-> <<>>]
NoOpts == [refresh |-> FALSE, write_checksums |-> FALSE,
           verify_checksums |-> FALSE, strict_integrity |-> FALSE]
NoResult == [c |-> 0, container |-> "none", n |-> 0]

IntegInit ==
    /\ iLock = None
    /\ iLeaves = [i \in LeafIdx |-> NoStamped]
    /\ iManifest = NoManifest
    /\ iTmp = NoManifest
    /\ iPc = "idle"
    /\ iOpts = NoOpts
    /\ iHeld = FALSE
    /\ iMeta = NoManifest
    /\ iAcc = <<>>
    /\ iResult = NoResult
    /\ iOut = <<>>
    /\ iOutcome = "none"
    /\ iExecs = 0
    /\ iBefore = [manifest |-> NoManifest, leaves |-> [i \in LeafIdx |-> NoStamped]]
    /\ iFound = FALSE
    /\ iChecked = {}
    /\ iCount = 0
    /\ iEnv = 0
    /\ iCalls = 0

\* no wrapper made, no call, an empty cache root
NoKOpts == [exclude_from_key |-> {}, canonicalize_kwargs |-> TRUE, key_fn |-> "none"]
NoCall == [qual |-> "", version |-> <<>>, args |-> <<>>, kwargs |-> <<>>,
           key |-> <<>>, base |-> <<>>, outcome |-> "none", val |-> 0]

KeyInit ==
    /\ kPhase = "new"
    /\ kOpts = NoKOpts
    /\ kStore = {}
    /\ kFirst = NoCall
    /\ kSecond = NoCall
    /\ kCount = 0

\* path names are sequences of tokens: the stem, then the suffixes
MProcs == 1..NCallers
\* the hex digests, named "1", "2", ..
MKeys == {ToString(k) : k \in 1..NKeys}
MNames == {<<k>> : k \in MKeys} \cup {<<k, ".lock">> : k \in MKeys} \cup {<<".lock">>}
MFiles == {<<>>, <<"0", ".pkl">>, <<"manifest", ".json">>,
           <<"manifest", ".json", ".tmp">>}
\* the paths under cache_root / qual: [name] is that child itself, [name,
\* file] a file in it
MPaths == [name : MNames, file : MFiles]
Absent == [kind |-> "absent", by |-> 0]
Directory == [kind |-> "dir", by |-> 0]

\* an empty cache root, nobody calling
MultiInit ==
    /\ mFs = [path \in MPaths |-> Absent]
    /\ mPc = [p \in MProcs |-> "idle"]
    /\ mKey = [p \in MProcs |-> ""]
    /\ mCalls = 0

\* no value, an empty entry directory
NoObj == [df |-> FALSE, parquet |-> FALSE, id |-> 0]
NoContent == [fmt |-> "none", obj |-> NoObj]
NoValue == [shape |-> "none", keys |-> <<>>, elems |-> <<>>]
Labels == {ToString(i) : i \in 0..MaxItems}
RNames == Labels \X {".pkl", ".parquet"}

RoundInit ==
    /\ rPhase = "new"
    /\ rValue = NoValue
    /\ rFiles = [name \in RNames |-> NoContent]
    /\ rManifest = [container |-> "none", items |-> <<>>]
    /\ rOut = [ok |-> FALSE, value |-> NoValue]

\* the children a function directory can have: key directories and the
\* lock files next to them
DQuals == {"f", "g"}
DChildren == [qual : DQuals, name : MNames \ {<<".lock">>}]

\* an empty cache root
AdminInit ==
    /\ dTree = [ch \in DChildren |-> "absent"]
    /\ dVal = [ch \in DChildren |-> 0]
    /\ dOps = 0
    /\ dPhase = "calls"
    /\ dBefore = [tree |-> [ch \in DChildren |-> "absent"],
                  val |-> [ch \in DChildren |-> 0],
                  count |-> [q \in DQuals |-> 0]]
    /\ dArgs = [qual |-> "", name |-> <<>>]
    /\ dRemoved = 0

LFrames == 1..NFrames

\* no entry, no lock file, nobody calling
LifeInit ==
    /\ lLock = None
    /\ lManifest = "absent"
    /\ lPc = [p \in LFrames |-> "idle"]
    /\ lRefresh = [p \in LFrames |-> FALSE]
    /\ lParent = [p \in LFrames |-> 0]
    /\ lOutcome = [p \in LFrames |-> "none"]
    /\ lStaleAt = [p \in LFrames |-> FALSE]
    /\ lCalls = 0
    /\ lCrashes = 0
    /\ lEnv = 0

Init ==
    /\ MultiInit
    /\ LifeInit
    /\ AdminInit
    /\ RoundInit
    /\ dirExists = FALSE
    /\ lock = None
    /\ leaves = [i \in LeafIdx |-> NoLeaf]
    /\ manifest = NoFile
    /\ tmp = NoFile
    /\ pc = [p \in Procs |-> "idle"]
    /\ refresh = [p \in Procs |-> FALSE]
    /\ held = [p \in Procs |-> FALSE]
    /\ meta = [p \in Procs |-> NoFile]
    /\ acc = [p \in Procs |-> <<>>]
    /\ result = [p \in Procs |-> NoFile]
    /\ idx = [p \in Procs |-> 0]
    /\ outcome = [p \in Procs |-> "none"]
    /\ ncalls = 0
    /\ started = 0
    /\ firstReturned = <<>>
    /\ execs = [p \in Procs |-> 0]
    /\ writes = [p \in Procs |-> {}]
    /\ missed = [p \in Procs |-> {}]
    /\ pubValid = [p \in Procs |-> FALSE]
    /\ computeCount = 0
    /\ envCount = 0
    /\ disturbed = FALSE
    /\ IntegInit
    /\ KeyInit

\* ------------------------------------------------------------ wrapper

\* A call that has ended (pc = "done") hands its value or exception to its
\* caller before anybody takes another step: Return touches no file, so it
\* commutes with every step of the other callers.
NoReturnPending == \A q \in Procs : pc[q] # "done"

\* where a miss before the lock goes on: base.mkdir(parents=True,
\* exist_ok=True), then _DirLock.__enter__
MissBeforeLock(p) ==
    /\ dirExists' = TRUE
    /\ writes' = [writes EXCEPT ![p] = IF dirExists THEN @ ELSE @ \cup {"dir"}]

\* wrapper(*args, **kwargs), entered with the decorator's refresh option r, up
\* to the pre-lock probe `if not refresh and manifest.exists()`.  Callers are
\* interchangeable, so caller p makes its first call after caller p - 1 did.
Call(p, r) ==
    /\ NoReturnPending
    /\ pc[p] = "idle"
    /\ p <= started + 1
    /\ started' = IF p > started THEN p ELSE started
    /\ ncalls < MaxCalls
    /\ ncalls' = ncalls + 1
    /\ refresh' = [refresh EXCEPT ![p] = r]
    /\ disturbed' = (disturbed \/ r)
    /\ IF ProbeHit(r, Exists(manifest))
       THEN /\ pc' = [pc EXCEPT ![p] = "readmeta"]
            /\ UNCHANGED <<missed, writes, dirExists>>
       ELSE /\ pc' = [pc EXCEPT ![p] = "acquire"]
            /\ missed' = [missed EXCEPT ![p] = {"probe"}]
            /\ MissBeforeLock(p)
    /\ UNCHANGED <<lock, leaves, manifest, tmp, computeCount, envCount,
                   held, meta, acc, result, idx, outcome, execs, pubValid,
                   firstReturned>>
    /\ UNCHANGED extVars

\* variant: no double-check, the lock holder always computes
DoubleCheckSkipped(p) ==
    /\ NoReturnPending
    /\ pc[p] = "dcheck"
    /\ pc' = [pc EXCEPT ![p] = "compute"]
    /\ missed' = [missed EXCEPT ![p] = @ \cup {"dcheck"}]
    /\ UNCHANGED <<fsVars, histVars, refresh, held, meta, acc, result, idx,
                   outcome, ncalls, execs, writes, pubValid,
                   firstReturned>>
    /\ UNCHANGED extVars

\* the double-check under the lock, `if not refresh and manifest.exists()`
DoubleCheck(p) ==
    /\ NoReturnPending
    /\ pc[p] = "dcheck"
    /\ IF ProbeHit(refresh[p], Exists(manifest))
       THEN /\ pc' = [pc EXCEPT ![p] = "readmeta"]
            /\ UNCHANGED missed
       ELSE /\ pc' = [pc EXCEPT ![p] = "compute"]
            /\ missed' = [missed EXCEPT ![p] = @ \cup {"dcheck"}]
    /\ UNCHANGED <<fsVars, histVars, refresh, held, meta, acc, result, idx,
                   outcome, ncalls, execs, writes, pubValid,
                   firstReturned>>
    /\ UNCHANGED extVars

\* a read inside the try block raised: swallowed, the call goes on as a miss
DecodeError(p) ==
    LET nx == AfterDecodeError(held[p]) IN
    /\ pc' = [pc EXCEPT ![p] = nx.pc]
    /\ outcome' = [outcome EXCEPT ![p] = nx.outcome]
    /\ missed' = [missed EXCEPT ![p] = @ \cup {IF held[p] THEN "dcheck" ELSE "probe"}]
    /\ IF nx.pc = "acquire" THEN MissBeforeLock(p) ELSE UNCHANGED <<dirExists, writes>>

\* meta = json.loads(manifest.read_text()); a manifest of an unknown container
\* kind parses, and _load_result raises ValueError("unknown container") before
\* it opens any leaf
ReadManifest(p) ==
    /\ NoReturnPending
    /\ pc[p] = "readmeta"
    /\ IF IsMeta(manifest)
       THEN /\ meta' = [meta EXCEPT ![p] = manifest]
            /\ pc' = [pc EXCEPT ![p] = "load"]
            /\ UNCHANGED <<outcome, missed, dirExists, writes>>
       ELSE /\ DecodeError(p)
            /\ meta' = IF UnknownContainer(manifest)
                       THEN [meta EXCEPT ![p] = manifest] ELSE meta
    /\ UNCHANGED <<lock, leaves, manifest, tmp, histVars, refresh, held, acc,
                   result, idx, ncalls, execs, pubValid,
                   firstReturned>>
    /\ UNCHANGED extVars

\* _load_result: one _load_leaf per item of meta, in order; the value is
\* returned after the last one (through __exit__ when under the lock)
LoadLeaf(p) ==
    /\ NoReturnPending
    /\ pc[p] = "load"
    /\ LET i == Len(acc[p]) + 1 IN
       IF LeafLoads(leaves[i])
       THEN /\ acc' = [acc EXCEPT ![p] = Append(@, leaves[i].c)]
            /\ IF i = meta[p].n
               THEN /\ pc' = [pc EXCEPT ![p] = IF held[p] THEN "exit" ELSE "done"]
                    /\ outcome' = [outcome EXCEPT ![p] = "hit"]
               ELSE UNCHANGED <<pc, outcome>>
            /\ UNCHANGED <<missed, dirExists, writes>>
       ELSE /\ DecodeError(p)
            /\ acc' = [acc EXCEPT ![p] = <<>>]
    /\ UNCHANGED <<lock, leaves, manifest, tmp, histVars, refresh, held, meta,
                   result, idx, ncalls, execs, pubValid,
                   firstReturned>>
    /\ UNCHANGED extVars

\* _DirLock.__enter__: exclusive create of the lock file, pid written into it
Acquire(p) ==
    /\ NoReturnPending
    /\ pc[p] = "acquire"
    /\ CanCreate(lock)
    /\ lock' = p
    /\ held' = [held EXCEPT ![p] = TRUE]
    /\ writes' = [writes EXCEPT ![p] = @ \cup {"lock"}]
    /\ pc' = [pc EXCEPT ![p] = "dcheck"]
    /\ UNCHANGED <<dirExists, leaves, manifest, tmp, histVars, refresh, meta,
                   acc, result, idx, outcome, ncalls, execs, missed, pubValid,
                   firstReturned>>
    /\ UNCHANGED extVars

\* _DirLock.__enter__: FileExistsError and time.time() - start > timeout
LockTimeout(p) ==
    /\ NoReturnPending
    /\ pc[p] = "acquire"
    /\ lock # None
    /\ lock' = LockAfterTimeout(lock)
    /\ writes' = [writes EXCEPT ![p] = IF lock' = lock THEN @ ELSE @ \cup {"unlock"}]
    /\ outcome' = [outcome EXCEPT ![p] = "timeout"]
    /\ pc' = [pc EXCEPT ![p] = "done"]
    /\ UNCHANGED <<dirExists, leaves, manifest, tmp, histVars, refresh, held,
                   meta, acc, result, idx, ncalls, execs, missed, pubValid,
                   firstReturned>>
    /\ UNCHANGED extVars

\* result = func(*args, **kwargs): the k-th execution returns n fresh leaves
Compute(p, n) ==
    /\ NoReturnPending
    /\ pc[p] = "compute"
    /\ computeCount' = computeCount + 1
    /\ execs' = [execs EXCEPT ![p] = @ + 1]
    /\ result' = [result EXCEPT ![p] = [st |-> "ok", c |-> computeCount + 1, n |-> n]]
    /\ idx' = [idx EXCEPT ![p] = 1]
    /\ pc' = [pc EXCEPT ![p] = "save_open"]
    /\ UNCHANGED <<fsVars, envCount, disturbed, started, refresh, held, meta,
                   acc, outcome, ncalls, writes, missed, pubValid,
                   firstReturned>>
    /\ UNCHANGED extVars

\* variant: the exception of func leaves wrapper without __exit__
ComputeRaiseKeepsLock(p) ==
    /\ NoReturnPending
    /\ pc[p] = "compute"
    /\ computeCount' = computeCount + 1
    /\ execs' = [execs EXCEPT ![p] = @ + 1]
    /\ disturbed' = TRUE
    /\ outcome' = [outcome EXCEPT ![p] = "func_error"]
    /\ held' = [held EXCEPT ![p] = FALSE]
    /\ pc' = [pc EXCEPT ![p] = "done"]
    /\ UNCHANGED <<fsVars, envCount, started, refresh, meta, acc,
                   result, idx, ncalls, writes, missed, pubValid,
                   firstReturned>>
    /\ UNCHANGED extVars

\* func(*args, **kwargs) raises: the exception leaves the with block
ComputeRaise(p) ==
    /\ NoReturnPending
    /\ pc[p] = "compute"
    /\ computeCount' = computeCount + 1
    /\ execs' = [execs EXCEPT ![p] = @ + 1]
    /\ disturbed' = TRUE
    /\ outcome' = [outcome EXCEPT ![p] = "func_error"]
    /\ pc' = [pc EXCEPT ![p] = "exit"]
    /\ UNCHANGED <<fsVars, envCount, started, refresh, held, meta, acc,
                   result, idx, ncalls, writes, missed, pubValid,
                   firstReturned>>
    /\ UNCHANGED extVars

\* _save_result, leaf idx: open(base / f"{i}.pkl", "wb")
SaveOpen(p) ==
    /\ NoReturnPending
    /\ pc[p] = "save_open"
    /\ leaves' = [leaves EXCEPT ![idx[p]] = LeafAfterOpen(@, result[p].c)]
    /\ writes' = [writes EXCEPT ![p] = @ \cup {"leaf"}]
    /\ pc' = [pc EXCEPT ![p] = "save_write"]
    /\ UNCHANGED <<dirExists, lock, manifest, tmp, histVars, refresh, held, meta,
                   acc, result, idx, outcome, ncalls, execs, missed, pubValid,
                   firstReturned>>
    /\ UNCHANGED extVars

\* _save_result, leaf idx: pickle.dump(v, f) and close; then the next leaf,
\* or back in wrapper with meta
SaveWrite(p) ==
    /\ NoReturnPending
    /\ pc[p] = "save_write"
    /\ leaves' = [leaves EXCEPT ![idx[p]] = [st |-> "full", c |-> result[p].c]]
    /\ IF idx[p] = result[p].n
       THEN /\ pc' = [pc EXCEPT ![p] = "write_tmp"]
            /\ UNCHANGED idx
       ELSE /\ pc' = [pc EXCEPT ![p] = "save_open"]
            /\ idx' = [idx EXCEPT ![p] = @ + 1]
    /\ UNCHANGED <<dirExists, lock, manifest, tmp, histVars, refresh, held, meta,
                   acc, result, outcome, ncalls, execs, writes, missed, pubValid,
                   firstReturned>>
    /\ UNCHANGED extVars

\* _save_result, leaf idx: pickle.dump raises (value cannot be pickled); the
\* opened file stays as it is and the exception leaves the with block
SaveRaise(p) ==
    /\ NoReturnPending
    /\ pc[p] = "save_write"
    /\ disturbed' = TRUE
    /\ outcome' = [outcome EXCEPT ![p] = "commit_error"]
    /\ pc' = [pc EXCEPT ![p] = "exit"]
    /\ UNCHANGED <<fsVars, computeCount, envCount, started, refresh, held,
                   meta, acc, result, idx, ncalls, execs, writes, missed, pubValid,
                   firstReturned>>
    /\ UNCHANGED extVars

\* _atomic_write_text: write, flush and fsync manifest.json.tmp
WriteTmp(p) ==
    /\ NoReturnPending
    /\ pc[p] = "write_tmp"
    /\ tmp' = result[p]
    /\ writes' = [writes EXCEPT ![p] = @ \cup {"tmp"}]
    /\ pc' = [pc EXCEPT ![p] = "replace"]
    /\ UNCHANGED <<dirExists, lock, leaves, manifest, histVars, refresh, held,
                   meta, acc, result, idx, outcome, ncalls, execs, missed, pubValid,
                   firstReturned>>
    /\ UNCHANGED extVars

\* _atomic_write_text: os.replace(tmp, path); then `return result`
Replace(p) ==
    /\ NoReturnPending
    /\ pc[p] = "replace"
    /\ manifest' = tmp
    /\ tmp' = NoFile
    /\ writes' = [writes EXCEPT ![p] = @ \cup {"manifest"}]
    /\ pubValid' = [pubValid EXCEPT ![p] = ValidManifest(tmp, leaves)]
    /\ outcome' = [outcome EXCEPT ![p] = "computed"]
    /\ pc' = [pc EXCEPT ![p] = "exit"]
    /\ UNCHANGED <<dirExists, lock, leaves, histVars, refresh, held, meta, acc,
                   result, idx, ncalls, execs, missed, firstReturned>>
    /\ UNCHANGED extVars

\* _DirLock.__exit__, on return and on exception alike
Exit(p) ==
    /\ NoReturnPending
    /\ pc[p] = "exit"
    /\ lock' = LockAfterExit(lock)
    /\ held' = [held EXCEPT ![p] = FALSE]
    /\ writes' = [writes EXCEPT ![p] = IF lock' = lock THEN @ ELSE @ \cup {"unlock"}]
    /\ pc' = [pc EXCEPT ![p] = "done"]
    /\ UNCHANGED <<dirExists, leaves, manifest, tmp, histVars, refresh, meta, acc,
                   result, idx, outcome, ncalls, execs, missed, pubValid,
                   firstReturned>>
    /\ UNCHANGED extVars

\* the call of p ends by `return`
Returns(p) == pc[p] = "done" /\ outcome[p] \in {"hit", "computed"}

\* the value wrapper returns: the decoded leaves on a hit, result otherwise
Returned(p) == IF outcome[p] = "hit" THEN acc[p] ELSE CommitValue(result[p])

\* the call of p went through _DirLock.__enter__
Acquired(p) == "lock" \in writes[p]

\* wrapper has returned or raised: its frame is gone
Return(p) ==
    /\ pc[p] = "done"
    /\ pc' = [pc EXCEPT ![p] = "idle"]
    /\ refresh' = [refresh EXCEPT ![p] = FALSE]
    /\ meta' = [meta EXCEPT ![p] = NoFile]
    /\ acc' = [acc EXCEPT ![p] = <<>>]
    /\ result' = [result EXCEPT ![p] = NoFile]
    /\ idx' = [idx EXCEPT ![p] = 0]
    /\ outcome' = [outcome EXCEPT ![p] = "none"]
    /\ execs' = [execs EXCEPT ![p] = 0]
    /\ writes' = [writes EXCEPT ![p] = {}]
    /\ missed' = [missed EXCEPT ![p] = {}]
    /\ pubValid' = [pubValid EXCEPT ![p] = FALSE]
    /\ firstReturned' = IF firstReturned = <<>> /\ Returns(p)
                        THEN Returned(p) ELSE firstReturned
    /\ UNCHANGED <<fsVars, histVars, held, ncalls>>
    /\ UNCHANGED extVars

\* ------------------------------------------------ the external actor
\* What the tests do between two calls: unlink the manifest
\* (test_missing_manifest_recovers), overwrite bytes of a leaf file so that
\* it no longer loads (test_refresh_bypasses_corrupt_cache_and_rewrites),
\* rewrite the manifest.  As in the tests, the actor acts while no call is
\* running.  Damage to a leaf that no manifest references is not modelled:
\* every commit rewrites its leaves before it publishes.

Quiescent == \A p \in Procs : pc[p] = "idle"

procVars == <<pc, refresh, held, meta, acc, result, idx, outcome, ncalls,
              execs, writes, missed, pubValid>>

\* manifests[0].unlink()
EnvDeleteManifest ==
    /\ Quiescent /\ envCount < MaxEnv
    /\ Exists(manifest)
    /\ manifest' = NoFile
    /\ envCount' = envCount + 1
    /\ UNCHANGED <<dirExists, lock, leaves, tmp, procVars, computeCount,
                   disturbed, started, firstReturned>>
    /\ UNCHANGED extVars

\* manifest.write_text(<not a manifest>)
EnvCorruptManifest ==
    /\ Quiescent /\ envCount < MaxEnv
    /\ IsMeta(manifest)
    /\ manifest' = [manifest EXCEPT !.st = "corrupt"]
    /\ envCount' = envCount + 1
    /\ UNCHANGED <<dirExists, lock, leaves, tmp, procVars, computeCount,
                   disturbed, started, firstReturned>>
    /\ UNCHANGED extVars

\* manifest.write_text(json.dumps(meta)) with meta["container"] replaced by
\* a kind that _load_result does not know
EnvUnknownContainer ==
    /\ Quiescent /\ envCount < MaxEnv
    /\ IsMeta(manifest)
    /\ manifest' = [manifest EXCEPT !.st = "unknown"]
    /\ envCount' = envCount + 1
    /\ UNCHANGED <<dirExists, lock, leaves, tmp, procVars, computeCount,
                   disturbed, started, firstReturned>>
    /\ UNCHANGED extVars

\* open(data_file, "r+b").write(<garbage>)
EnvCorruptLeaf(i) ==
    /\ Quiescent /\ envCount < MaxEnv
    /\ IsMeta(manifest) /\ i <= manifest.n
    /\ leaves[i].st = "full"
    /\ leaves' = [leaves EXCEPT ![i].st = "corrupt"]
    /\ envCount' = envCount + 1
    /\ UNCHANGED <<dirExists, lock, manifest, tmp, procVars, computeCount,
                   disturbed, started, firstReturned>>
    /\ UNCHANGED extVars

\* --------------------------------------------------------------- spec

Next ==
    \/ \E p \in Procs, r \in BOOLEAN : Call(p, r)
    \/ \E p \in Procs : DoubleCheck(p)
    \/ \E p \in Procs : ReadManifest(p)
    \/ \E p \in Procs : LoadLeaf(p)
    \/ \E p \in Procs : Acquire(p)
    \/ \E p \in Procs : LockTimeout(p)
    \/ \E p \in Procs, n \in LeafIdx : Compute(p, n)
    \/ \E p \in Procs : ComputeRaise(p)
    \/ \E p \in Procs : SaveOpen(p)
    \/ \E p \in Procs : SaveWrite(p)
    \/ \E p \in Procs : SaveRaise(p)
    \/ \E p \in Procs : WriteTmp(p)
    \/ \E p \in Procs : Replace(p)
    \/ \E p \in Procs : Exit(p)
    \/ \E p \in Procs : Return(p)
    \/ EnvDeleteManifest
    \/ EnvCorruptManifest
    \/ EnvUnknownContainer
    \/ \E i \in LeafIdx : EnvCorruptLeaf(i)

Spec == Init /\ [][Next]_vars

TypeOK ==
    /\ lock \in Procs \cup {None}
    /\ \A p \in Procs : Len(acc[p]) <= MaxLeaves

\* ------------------------------------ the checksum-aware codec (_io.py)
\* One entry, used through wrappers of the same function that may differ in
\* refresh, write_checksums, verify_checksums and strict_integrity, one call
\* at a time (concurrent callers are the subject of Spec).  A leaf file is
\* [st, c, sz]: "full" as written by commit c, "partial" after an interrupted
\* write, "garbled" after bytes of it were overwritten from outside.  The
\* k-th execution of func returns leaves of content k and of k bytes.

Containers == {"df", "tuple", "list", "dict", "other"}

\* a leaf descriptor without "sha256" / without "size"
NoSha == [st |-> "none", c |-> 0, sz |-> 0]
NoSize == 0 - 1

\* the digest "0" * 64, which no file has
ZeroSha == [st |-> "zero", c |-> 0, sz |-> 0]

\* sha256_file(p) -> (sha, size): files of different content have different
\* digests
Sha256File(f) == [sha |-> [st |-> f.st, c |-> f.c, sz |-> f.sz], size |-> f.sz]

\* the descriptor of leaf file i: {"kind", "file"} and, `if write_checksums`,
\* the digest and size of the file just written
Node(i, f, write_checksums) ==
    IF write_checksums
    THEN [file |-> i, sha256 |-> Sha256File(f).sha, size |-> Sha256File(f).size]
    ELSE [file |-> i, sha256 |-> NoSha, size |-> NoSize]

\* variant: the dict branch appends its entry without the stamp
SaveItemDictUnstamped(container, i, f, write_checksums) ==
    CASE container = "df" -> Node(i, f, write_checksums)
      [] container = "tuple" -> Node(i, f, write_checksums)
      [] container = "list" -> Node(i, f, write_checksums)
      [] container = "dict" -> [key_b64 |-> i, entry |-> Node(i, f, FALSE)]
      [] container = "other" -> Node(i, f, write_checksums)

\* save_result: the item appended to `out` for leaf i, one branch per
\* container kind (save_df for a DataFrame)
SaveItem(container, i, f, write_checksums) ==
    CASE container = "df" -> Node(i, f, write_checksums)
      [] container = "tuple" -> Node(i, f, write_checksums)
      [] container = "list" -> Node(i, f, write_checksums)
      [] container = "dict" -> [key_b64 |-> i, entry |-> Node(i, f, write_checksums)]
      [] container = "other" -> Node(i, f, write_checksums)

\* load_result / iter_leaf_entries: the leaf descriptor of item i
LeafEntry(m, i) ==
    IF m.container = "dict" THEN m.items[i].entry ELSE m.items[i]

\* variant: the verify_checksums flag is not consulted
ChecksIgnoresVerify(entry, verify_checksums) == entry.sha256 # NoSha

\* load_leaf: `if verify_checksums and "sha256" in entry`
Checks(entry, verify_checksums) == verify_checksums /\ entry.sha256 # NoSha

\* variant: `and` for `or`, a mismatch needs both digest and size to differ
MismatchNeedsBoth(entry, f) ==
    LET got == Sha256File(f)
        expected_sz == IF entry.size = NoSize THEN got.size ELSE entry.size
    IN  got.sha # entry.sha256 /\ got.size # expected_sz

\* variant: only the digest is compared
MismatchIgnoresSize(entry, f) ==
    Sha256File(f).sha # entry.sha256

\* load_leaf: expected_sz = entry.get("size", size);
\* `if sha != expected_sha or size != expected_sz`
Mismatch(entry, f) ==
    LET got == Sha256File(f)
        expected_sz == IF entry.size = NoSize THEN got.size ELSE entry.size
    IN  got.sha # entry.sha256 \/ got.size # expected_sz

\* pickle.load(f) of the leaf file succeeds
Unpickles(f) == f.st = "full"

\* the facade on the ValueError of load_leaf: propagated when
\* strict_integrity (through __exit__ under the lock), a miss otherwise
AfterIntegrityError(strict_integrity, h) ==
    IF strict_integrity
    THEN [pc |-> IF h THEN "exit" ELSE "done", outcome |-> "integrity_error"]
    ELSE AfterDecodeError(h)

OptSets == [refresh : BOOLEAN, write_checksums : BOOLEAN,
            verify_checksums : BOOLEAN, strict_integrity : BOOLEAN]

\* wrapper(*args, **kwargs) of a wrapper with options o, up to the pre-lock
\* probe
ICall(o) ==
    /\ iPc = "idle"
    /\ iCalls < MaxICalls
    /\ iCalls' = iCalls + 1
    /\ iOpts' = o
    /\ iBefore' = [manifest |-> iManifest, leaves |-> iLeaves]
    /\ iPc' = IF ProbeHit(o.refresh, Exists(iManifest)) THEN "readmeta" ELSE "acquire"
    /\ UNCHANGED <<iLock, iLeaves, iManifest, iTmp, iHeld, iMeta, iAcc, iResult,
                   iOut, iOutcome, iExecs, iFound, iChecked, iCount, iEnv>>
    /\ UNCHANGED othersI

\* meta = json.loads(manifest.read_text())
IReadManifest ==
    /\ iPc = "readmeta"
    /\ IF IsMeta(iManifest)
       THEN /\ iMeta' = iManifest
            /\ iPc' = "load"
       ELSE /\ iPc' = AfterDecodeError(iHeld).pc
            /\ UNCHANGED iMeta
    /\ UNCHANGED <<iLock, iLeaves, iManifest, iTmp, iOpts, iHeld, iAcc, iResult,
                   iOut, iOutcome, iExecs, iBefore, iFound, iChecked, iCount,
                   iEnv, iCalls>>
    /\ UNCHANGED othersI

\* load_result: load_leaf of the next item of meta; the value is returned
\* after the last one
ILoadLeaf ==
    /\ iPc = "load"
    /\ LET i == Len(iAcc) + 1
           entry == LeafEntry(iMeta, i)
           f == iLeaves[entry.file]
           check == Checks(entry, iOpts.verify_checksums)
           bad == check /\ Mismatch(entry, f)
           err == AfterIntegrityError(iOpts.strict_integrity, iHeld)
       IN  /\ iChecked' = IF check THEN iChecked \cup {i} ELSE iChecked
           /\ iFound' = (iFound \/ bad)
           /\ IF bad
              THEN /\ iPc' = err.pc
                   /\ iOutcome' = err.outcome
                   /\ iAcc' = <<>>
              ELSE IF Unpickles(f)
              THEN /\ iAcc' = Append(iAcc, f.c)
                   /\ IF i = Len(iMeta.items)
                      THEN /\ iPc' = IF iHeld THEN "exit" ELSE "done"
                           /\ iOutcome' = "hit"
                      ELSE UNCHANGED <<iPc, iOutcome>>
              ELSE /\ iPc' = AfterDecodeError(iHeld).pc
                   /\ iAcc' = <<>>
                   /\ UNCHANGED iOutcome
    /\ UNCHANGED <<iLock, iLeaves, iManifest, iTmp, iOpts, iHeld, iMeta,
                   iResult, iOut, iExecs, iBefore, iCount, iEnv, iCalls>>
    /\ UNCHANGED othersI

\* _DirLock.__enter__
IAcquire ==
    /\ iPc = "acquire"
    /\ CanCreate(iLock)
    /\ iLock' = 1
    /\ iHeld' = TRUE
    /\ iPc' = "dcheck"
    /\ UNCHANGED <<iLeaves, iManifest, iTmp, iOpts, iMeta, iAcc, iResult, iOut,
                   iOutcome, iExecs, iBefore, iFound, iChecked, iCount, iEnv,
                   iCalls>>
    /\ UNCHANGED othersI

\* the double-check under the lock
IDoubleCheck ==
    /\ iPc = "dcheck"
    /\ iPc' = IF ProbeHit(iOpts.refresh, Exists(iManifest)) THEN "readmeta" ELSE "compute"
    /\ UNCHANGED <<iLock, iLeaves, iManifest, iTmp, iOpts, iHeld, iMeta, iAcc,
                   iResult, iOut, iOutcome, iExecs, iBefore, iFound, iChecked,
                   iCount, iEnv, iCalls>>
    /\ UNCHANGED othersI

\* result = func(*args, **kwargs): a container of n leaves; a DataFrame and
\* any other single object are one leaf
ICompute(container, n) ==
    /\ iPc = "compute"
    /\ container \in {"df", "other"} => n = 1
    /\ iCount' = iCount + 1
    /\ iExecs' = iExecs + 1
    /\ iResult' = [c |-> iCount + 1, container |-> container, n |-> n]
    /\ iOut' = <<>>
    /\ iPc' = "save"
    /\ UNCHANGED <<iLock, iLeaves, iManifest, iTmp, iOpts, iHeld, iMeta, iAcc,
                   iOutcome, iBefore, iFound, iChecked, iEnv, iCalls>>
    /\ UNCHANGED othersI

\* func(*args, **kwargs) raises
IComputeRaise ==
    /\ iPc = "compute"
    /\ iCount' = iCount + 1
    /\ iExecs' = iExecs + 1
    /\ iOutcome' = "func_error"
    /\ iPc' = "exit"
    /\ UNCHANGED <<iLock, iLeaves, iManifest, iTmp, iOpts, iHeld, iMeta, iAcc,
                   iResult, iOut, iBefore, iFound, iChecked, iEnv, iCalls>>
    /\ UNCHANGED othersI

\* save_result, next leaf: open(p, "wb"), pickle.dump, close, then the
\* descriptor with the stamp of the file as it is now
ISaveLeaf ==
    /\ iPc = "save"
    /\ LET i == Len(iOut) + 1
           f == [st |-> "full", c |-> iResult.c, sz |-> iResult.c]
       IN  /\ iLeaves' = [iLeaves EXCEPT ![i] = f]
           /\ iOut' = Append(iOut, SaveItem(iResult.container, i, f,
                                            iOpts.write_checksums))
           /\ iPc' = IF i = iResult.n THEN "write_tmp" ELSE "save"
    /\ UNCHANGED <<iLock, iManifest, iTmp, iOpts, iHeld, iMeta, iAcc, iResult,
                   iOutcome, iExecs, iBefore, iFound, iChecked, iCount, iEnv,
                   iCalls>>
    /\ UNCHANGED othersI

\* save_result, next leaf: the file is opened (truncated) and pickle.dump
\* raises
ISaveRaise ==
    /\ iPc = "save"
    /\ iLeaves' = [iLeaves EXCEPT ![Len(iOut) + 1] =
                      [st |-> "partial", c |-> iResult.c, sz |-> 0]]
    /\ iOutcome' = "commit_error"
    /\ iPc' = "exit"
    /\ UNCHANGED <<iLock, iManifest, iTmp, iOpts, iHeld, iMeta, iAcc, iResult,
                   iOut, iExecs, iBefore, iFound, iChecked, iCount, iEnv, iCalls>>
    /\ UNCHANGED othersI

\* atomic_write_text: write, flush and fsync manifest.json.tmp
IWriteTmp ==
    /\ iPc = "write_tmp"
    /\ iTmp' = [st |-> "ok", c |-> iResult.c, container |-> iResult.container,
                items |-> iOut]
    /\ iPc' = "replace"
    /\ UNCHANGED <<iLock, iLeaves, iManifest, iOpts, iHeld, iMeta, iAcc, iResult,
                   iOut, iOutcome, iExecs, iBefore, iFound, iChecked, iCount,
                   iEnv, iCalls>>
    /\ UNCHANGED othersI

\* atomic_write_text: os.replace(tmp, path); then `return result`
IReplace ==
    /\ iPc = "replace"
    /\ iManifest' = iTmp
    /\ iTmp' = NoManifest
    /\ iOutcome' = "computed"
    /\ iPc' = "exit"
    /\ UNCHANGED <<iLock, iLeaves, iOpts, iHeld, iMeta, iAcc, iResult, iOut,
                   iExecs, iBefore, iFound, iChecked, iCount, iEnv, iCalls>>
    /\ UNCHANGED othersI

\* _DirLock.__exit__
IExit ==
    /\ iPc = "exit"
    /\ iLock' = LockAfterExit(iLock)
    /\ iHeld' = FALSE
    /\ iPc' = "done"
    /\ UNCHANGED <<iLeaves, iManifest, iTmp, iOpts, iMeta, iAcc, iResult, iOut,
                   iOutcome, iExecs, iBefore, iFound, iChecked, iCount, iEnv,
                   iCalls>>
    /\ UNCHANGED othersI

\* the wrapper has returned or raised
IReturn ==
    /\ iPc = "done"
    /\ iPc' = "idle"
    /\ iOpts' = NoOpts
    /\ iMeta' = NoManifest
    /\ iAcc' = <<>>
    /\ iResult' = NoResult
    /\ iOut' = <<>>
    /\ iOutcome' = "none"
    /\ iExecs' = 0
    /\ iBefore' = [manifest |-> NoManifest, leaves |-> [i \in LeafIdx |-> NoStamped]]
    /\ iFound' = FALSE
    /\ iChecked' = {}
    /\ UNCHANGED <<iLock, iLeaves, iManifest, iTmp, iHeld, iCount, iEnv, iCalls>>
    /\ UNCHANGED othersI

\* manifest m with the leaf descriptor of item i replaced by e
WithEntry(m, i, e) ==
    [m EXCEPT !.items[i] = IF m.container = "dict" THEN [@ EXCEPT !.entry = e]
                                                    ELSE e]

\* between two calls: open(data_file, "r+b"); f.seek(0); f.write(<garbage>),
\* which overwrites bytes and keeps the length
IEnvCorruptLeaf(i) ==
    /\ iPc = "idle" /\ iEnv < MaxEnv
    /\ IsMeta(iManifest) /\ i <= Len(iManifest.items)
    /\ iLeaves[i].st = "full"
    /\ iLeaves' = [iLeaves EXCEPT ![i].st = "garbled"]
    /\ iEnv' = iEnv + 1
    /\ UNCHANGED <<iLock, iManifest, iTmp, iPc, iOpts, iHeld, iMeta, iAcc,
                   iResult, iOut, iOutcome, iExecs, iBefore, iFound, iChecked,
                   iCount, iCalls>>
    /\ UNCHANGED othersI

\* between two calls: leaf["sha256"] = "0" * 64 (or another size) and
\* manifest.write_text(json.dumps(meta)); the leaf file stays as it is
IEnvEditStamp(i, field) ==
    /\ iPc = "idle" /\ iEnv < MaxEnv
    /\ IsMeta(iManifest) /\ i <= Len(iManifest.items)
    /\ LET e == LeafEntry(iManifest, i) IN
         /\ e.sha256 # NoSha
         /\ iManifest' = WithEntry(iManifest, i,
                IF field = "sha256" THEN [e EXCEPT !.sha256 = ZeroSha]
                                    ELSE [e EXCEPT !.size = @ + 1])
    /\ iEnv' = iEnv + 1
    /\ UNCHANGED <<iLock, iLeaves, iTmp, iPc, iOpts, iHeld, iMeta, iAcc,
                   iResult, iOut, iOutcome, iExecs, iBefore, iFound, iChecked,
                   iCount, iCalls>>
    /\ UNCHANGED othersI

NextI ==
    \/ \E o \in OptSets : ICall(o)
    \/ IReadManifest
    \/ ILoadLeaf
    \/ IAcquire
    \/ IDoubleCheck
    \/ \E container \in Containers, n \in LeafIdx : ICompute(container, n)
    \/ IComputeRaise
    \/ ISaveLeaf
    \/ ISaveRaise
    \/ IWriteTmp
    \/ IReplace
    \/ IExit
    \/ IReturn
    \/ \E i \in LeafIdx : IEnvCorruptLeaf(i)
    \/ \E i \in LeafIdx, field \in {"sha256", "size"} : IEnvEditStamp(i, field)

SpecI == Init /\ [][NextI]_<<vars, extVars>>

\* --------------------------------------------- keys (_key.py, cache.py)
\* Two calls, one after the other, through wrappers made with the same
\* exclude_from_key, canonicalize_kwargs and key_fn; each call has its
\* function, its version tag (None is <<>>, a string s is <<s>>), one
\* positional argument and up to three keyword arguments in call-site order.
\* Byte strings are sequences of tokens, and sha256(..).hexdigest() is the
\* byte string itself: different inputs have different digests.

Names == <<"a", "b", "n">>
Quals == {"f", "g"}
Versions == {<<>>, <<"">>, <<"v1">>}
Vals == {ToString(i) : i \in 1..MaxVal}
\* the values a keyword argument takes
KwVals(name) == IF name = "n" THEN {"1", "2"} ELSE {"1"}

\* a value pickle.dumps raises on (a lambda)
Lam == "<lambda>"

NameSet == {Names[i] : i \in 1..Len(Names)}
ArgSets == {<<v>> : v \in Vals \cup {Lam}}
KwargSets ==
    {kw \in UNION {[1..n -> NameSet \X {"1", "2"}] : n \in 0..Len(Names)} :
        /\ \A i \in 1..Len(kw) : kw[i][2] \in KwVals(kw[i][1])
        /\ \A i, j \in 1..Len(kw) : i # j => kw[i][1] # kw[j][1]}
KOptSets == [exclude_from_key : {{}, {"n"}}, canonicalize_kwargs : BOOLEAN,
             key_fn : {"none", "by_first_arg"}]

\* variant: the exclusion is skipped
RemainingAll(kwargs, exclude) == kwargs

\* `if exclude: kwargs = {k: v for k, v in kwargs.items() if k not in exclude}`
Remaining(kwargs, exclude) ==
    IF exclude # {} THEN SelectSeq(kwargs, LAMBDA kv : kv[1] \notin exclude)
                    ELSE kwargs

RECURSIVE SortedFrom(_, _)
\* the items of kwargs whose name is Names[i] or later, by name
SortedFrom(kwargs, i) ==
    IF i > Len(Names) THEN <<>>
    ELSE SelectSeq(kwargs, LAMBDA kv : kv[1] = Names[i]) \o SortedFrom(kwargs, i + 1)

\* variant: the items are taken in call-site order
UnsortedItems(kwargs) == kwargs

\* tuple(sorted(kwargs.items(), key=lambda kv: kv[0]))
SortedItems(kwargs) == SortedFrom(kwargs, 1)

RECURSIVE Flat(_)
\* the serialised items, one after the other
Flat(items) ==
    IF items = <<>> THEN <<>>
    ELSE <<"(", items[1][1], items[1][2], ")">> \o Flat(Tail(items))

\* payload = (args, kw_items) or (args, kwargs), serialised structurally: a
\* tuple of pairs and a dict serialise differently, each in the order of
\* its items
Payload(args, kwargs, canonicalize_kwargs) ==
    IF canonicalize_kwargs
    THEN <<"(">> \o args \o <<"tuple">> \o Flat(SortedItems(kwargs)) \o <<")">>
    ELSE <<"(">> \o args \o <<"dict">> \o Flat(kwargs) \o <<")">>

\* try: pickle.dumps(payload, protocol=5); except: repr(payload).encode()
Dumps(payload) ==
    IF \E i \in 1..Len(payload) : payload[i] = Lam
    THEN <<"repr">> \o payload ELSE <<"pickle">> \o payload

\* `if version:`
Truthy(version) == version # <<>> /\ version # <<"">>

\* make_key / _key: sha256 of qualname, optional "|ver:" + version, payload
MakeKey(func_name, args, kwargs, version, exclude, canonicalize_kwargs) ==
    <<func_name>>
    \o (IF Truthy(version) THEN <<"|ver:", version[1]>> ELSE <<>>)
    \o Dumps(Payload(args, Remaining(kwargs, exclude), canonicalize_kwargs))

\* a key_fn(args, kwargs): the first positional argument decides
KeyFn(args, kwargs) == <<"arg0", args[1]>>

\* variant: key_fn is not consulted
WrapperKeyAutomatic(o, qual, version, args, kwargs) ==
    MakeKey(qual, args, kwargs, version, o.exclude_from_key, o.canonicalize_kwargs)

\* key = key_fn(args, kwargs) if key_fn else _key(qual, args, kwargs, version,
\* exclude_from_key, canonicalize_kwargs)
WrapperKey(o, qual, version, args, kwargs) ==
    IF o.key_fn # "none" THEN KeyFn(args, kwargs)
    ELSE MakeKey(qual, args, kwargs, version, o.exclude_from_key,
                 o.canonicalize_kwargs)

\* base = cache_root / qual / key
Base(qual, key) == [qual |-> qual, key |-> key]

\* persist_cache(cache_dir, key_fn=.., exclude_from_key=..,
\* canonicalize_kwargs=..): the options the wrappers share
KDecorate(o) ==
    /\ kPhase = "new"
    /\ kPhase' = "decorated"
    /\ kOpts' = o
    /\ UNCHANGED <<kStore, kFirst, kSecond, kCount>>
    /\ UNCHANGED othersK

\* one call of wrapper, from the key to the return, with refresh=false and
\* nobody else in the cache: the manifest of base exists and is returned, or
\* func runs and its result is committed under base.  The two functions are
\* interchangeable, so the first call is a call of "f".
KCall(qual, version, args, kwargs) ==
    /\ kPhase \in {"decorated", "called"}
    /\ kPhase = "decorated" => qual = "f"
    /\ LET key == WrapperKey(kOpts, qual, version, args, kwargs)
           base == Base(qual, key)
           hit == \E e \in kStore : e.base = base
           val == IF hit THEN (CHOOSE e \in kStore : e.base = base).val
                         ELSE kCount + 1
           call == [qual |-> qual, version |-> version, args |-> args,
                    kwargs |-> kwargs, key |-> key, base |-> base,
                    outcome |-> IF hit THEN "hit" ELSE "computed", val |-> val]
       IN  /\ kStore' = IF hit THEN kStore ELSE kStore \cup {[base |-> base, val |-> val]}
           /\ kCount' = IF hit THEN kCount ELSE kCount + 1
           /\ IF kPhase = "decorated"
              THEN kFirst' = call /\ kPhase' = "called" /\ UNCHANGED kSecond
              ELSE kSecond' = call /\ kPhase' = "called_twice" /\ UNCHANGED kFirst
    /\ UNCHANGED kOpts
    /\ UNCHANGED othersK

NextK ==
    \/ \E o \in KOptSets : KDecorate(o)
    \/ \E qual \in Quals, version \in Versions, args \in ArgSets,
          kwargs \in KwargSets : KCall(qual, version, args, kwargs)

SpecK == Init /\ [][NextK]_<<vars, extVars>>

\* --------------------------------------------- several entries (SpecM)
\* Concurrent refresh=false callers of one function, each on one of NKeys
\* fingerprints: the wrapper of cache.py with the paths it derives from
\* base spelled out.  A result has one leaf; nothing but the callers
\* touches the cache root.

\* PurePath.suffix: the last suffix of the final component
Suffix(name) == IF Len(name) > 1 THEN <<name[Len(name)]>> ELSE <<>>

\* PurePath.with_suffix: the final component with its last suffix replaced
WithSuffix(name, suffix) ==
    (IF Len(name) > 1 THEN SubSeq(name, 1, Len(name) - 1) ELSE name) \o suffix

\* base = cache_root / qual / key, the key a hex digest
MBase(k) == [name |-> <<k>>, file |-> <<>>]

\* variant: one lock file next to the entries, for all of them
LockPathShared(base) == [name |-> <<".lock">>, file |-> <<>>]

\* _DirLock.__init__: base.with_suffix(base.suffix + ".lock")
LockPath(base) ==
    [name |-> WithSuffix(base.name, Suffix(base.name) \o <<".lock">>),
     file |-> <<>>]

\* base / "manifest.json"
ManifestPath(base) == [name |-> base.name, file |-> <<"manifest", ".json">>]

\* _atomic_write_text: path.with_suffix(path.suffix + ".tmp")
TmpPath(path) ==
    [name |-> path.name,
     file |-> WithSuffix(path.file, Suffix(path.file) \o <<".tmp">>)]

\* _save_result: base / f"{i}.pkl", the one leaf
LeafPath(base) == [name |-> base.name, file |-> <<"0", ".pkl">>]

FileBy(p) == [kind |-> "file", by |-> p]
MExists(path) == mFs[path].kind # "absent"

\* wrapper entry: key, base, the pre-lock probe and, on a miss, base.mkdir
MCall(p, k) ==
    /\ mPc[p] = "idle"
    /\ mCalls < MaxMCalls
    /\ mCalls' = mCalls + 1
    /\ mKey' = [mKey EXCEPT ![p] = k]
    /\ IF ProbeHit(FALSE, MExists(ManifestPath(MBase(k))))
       THEN /\ mPc' = [mPc EXCEPT ![p] = "read"]
            /\ UNCHANGED mFs
       ELSE /\ mPc' = [mPc EXCEPT ![p] = "acquire"]
            /\ mFs' = [mFs EXCEPT ![MBase(k)] = Directory]
    /\ UNCHANGED othersM

\* pre-lock read: json.loads(manifest.read_text()), _load_result; the value
\* is returned, or the read raises and the caller goes for the lock
MRead(p) ==
    /\ mPc[p] = "read"
    /\ IF MExists(ManifestPath(MBase(mKey[p]))) /\ MExists(LeafPath(MBase(mKey[p])))
       THEN /\ mPc' = [mPc EXCEPT ![p] = "idle"]
            /\ UNCHANGED mFs
       ELSE /\ mPc' = [mPc EXCEPT ![p] = "acquire"]
            /\ mFs' = [mFs EXCEPT ![MBase(mKey[p])] = Directory]
    /\ UNCHANGED <<mKey, mCalls>>
    /\ UNCHANGED othersM

\* _DirLock.__enter__: os.open(self.lock, O_CREAT | O_EXCL | O_WRONLY)
MAcquire(p) ==
    /\ mPc[p] = "acquire"
    /\ ~MExists(LockPath(MBase(mKey[p])))
    /\ mFs' = [mFs EXCEPT ![LockPath(MBase(mKey[p]))] = FileBy(p)]
    /\ mPc' = [mPc EXCEPT ![p] = "dcheck"]
    /\ UNCHANGED <<mKey, mCalls>>
    /\ UNCHANGED othersM

\* _DirLock.__enter__: FileExistsError until the timeout, TimeoutError
MLockTimeout(p) ==
    /\ mPc[p] = "acquire"
    /\ MExists(LockPath(MBase(mKey[p])))
    /\ mPc' = [mPc EXCEPT ![p] = "idle"]
    /\ UNCHANGED <<mFs, mKey, mCalls>>
    /\ UNCHANGED othersM

\* the double-check after the lock: the cached value, or on to func
MDoubleCheck(p) ==
    /\ mPc[p] = "dcheck"
    /\ IF /\ ProbeHit(FALSE, MExists(ManifestPath(MBase(mKey[p]))))
          /\ MExists(LeafPath(MBase(mKey[p])))
       THEN mPc' = [mPc EXCEPT ![p] = "exit"]
       ELSE mPc' = [mPc EXCEPT ![p] = "compute"]
    /\ UNCHANGED <<mFs, mKey, mCalls>>
    /\ UNCHANGED othersM

\* result = func(*args, **kwargs)
MCompute(p) ==
    /\ mPc[p] = "compute"
    /\ mPc' = [mPc EXCEPT ![p] = "save"]
    /\ UNCHANGED <<mFs, mKey, mCalls>>
    /\ UNCHANGED othersM

\* _save_result: the leaf is written
MSaveLeaf(p) ==
    /\ mPc[p] = "save"
    /\ mFs' = [mFs EXCEPT ![LeafPath(MBase(mKey[p]))] = FileBy(p)]
    /\ mPc' = [mPc EXCEPT ![p] = "write_tmp"]
    /\ UNCHANGED <<mKey, mCalls>>
    /\ UNCHANGED othersM

\* _atomic_write_text: the temporary file is written
MWriteTmp(p) ==
    /\ mPc[p] = "write_tmp"
    /\ mFs' = [mFs EXCEPT ![TmpPath(ManifestPath(MBase(mKey[p])))] = FileBy(p)]
    /\ mPc' = [mPc EXCEPT ![p] = "replace"]
    /\ UNCHANGED <<mKey, mCalls>>
    /\ UNCHANGED othersM

\* _atomic_write_text: os.replace(tmp, path)
MReplace(p) ==
    /\ mPc[p] = "replace"
    /\ mFs' = [mFs EXCEPT
                 ![ManifestPath(MBase(mKey[p]))] =
                     mFs[TmpPath(ManifestPath(MBase(mKey[p])))],
                 ![TmpPath(ManifestPath(MBase(mKey[p])))] = Absent]
    /\ mPc' = [mPc EXCEPT ![p] = "exit"]
    /\ UNCHANGED <<mKey, mCalls>>
    /\ UNCHANGED othersM

\* _DirLock.__exit__: if self.lock.exists(): os.unlink(self.lock); return
MExit(p) ==
    /\ mPc[p] = "exit"
    /\ mFs' = [mFs EXCEPT ![LockPath(MBase(mKey[p]))] = Absent]
    /\ mPc' = [mPc EXCEPT ![p] = "idle"]
    /\ UNCHANGED <<mKey, mCalls>>
    /\ UNCHANGED othersM

NextM ==
    \/ \E p \in MProcs, k \in MKeys : MCall(p, k)
    \/ \E p \in MProcs : MRead(p)
    \/ \E p \in MProcs : MAcquire(p)
    \/ \E p \in MProcs : MLockTimeout(p)
    \/ \E p \in MProcs : MDoubleCheck(p)
    \/ \E p \in MProcs : MCompute(p)
    \/ \E p \in MProcs : MSaveLeaf(p)
    \/ \E p \in MProcs : MWriteTmp(p)
    \/ \E p \in MProcs : MReplace(p)
    \/ \E p \in MProcs : MExit(p)

SpecM == Init /\ [][NextM]_<<vars, extVars>>

\* ------------------------------------------------- the codec (SpecR)
\* A value is [shape, keys, elems]: shape is its Python type ("df", "tuple",
\* "list", "dict", or "other" for any other single object), elems its
\* top-level elements in order (the value itself for "df" and "other"),
\* keys the mapping keys in insertion order.  An element is an object
\* [df, parquet, id]: a DataFrame or not, one that to_parquet accepts or
\* not.  A key is a string naming its type and value: "s:42" is the
\* string '42', "i:42" the integer, "t:(1,2)" a tuple.

Objs == {[df |-> TRUE, parquet |-> TRUE, id |-> 1],
         [df |-> TRUE, parquet |-> FALSE, id |-> 1],
         [df |-> FALSE, parquet |-> FALSE, id |-> 1],
         [df |-> FALSE, parquet |-> FALSE, id |-> 2]}
RKeys == {"s:42", "i:42", "t:(1,2)"}

\* sequences of up to MaxItems members of S
SeqsUpTo(S) == UNION {[1..n -> S] : n \in 0..MaxItems}

\* the results of the supported shapes
Values ==
    {[shape |-> "df", keys |-> <<>>, elems |-> <<o>>] : o \in {x \in Objs : x.df}}
    \cup {[shape |-> "other", keys |-> <<>>, elems |-> <<o>>] : o \in {x \in Objs : ~x.df}}
    \cup {[shape |-> sh, keys |-> <<>>, elems |-> e] :
             sh \in {"tuple", "list"}, e \in SeqsUpTo(Objs)}
    \cup {v \in [shape : {"dict"}, keys : SeqsUpTo(RKeys), elems : SeqsUpTo(Objs)] :
             /\ Len(v.keys) = Len(v.elems)
             /\ \A i, j \in 1..Len(v.keys) : i # j => v.keys[i] # v.keys[j]}

\* sha256_file(p): digest and size identify the content
Stamp(content, write_checksums) == IF write_checksums THEN <<content>> ELSE <<>>

\* save_df: to_parquet, and pickle when it raises; the file and its node
RSaveDf(label, df, write_checksums) ==
    LET ext == IF df.parquet THEN ".parquet" ELSE ".pkl"
        content == [fmt |-> IF df.parquet THEN "parquet" ELSE "pickle", obj |-> df]
    IN  [name |-> <<label, ext>>, content |-> content,
         node |-> [kind |-> content.fmt, file |-> <<label, ext>>,
                   sha256 |-> Stamp(content, write_checksums)]]

\* p = base / f"{i}.pkl"; pickle.dump(v, f); node
RSavePickle(label, v, write_checksums) ==
    LET content == [fmt |-> "pickle", obj |-> v]
    IN  [name |-> <<label, ".pkl">>, content |-> content,
         node |-> [kind |-> "pickle", file |-> <<label, ".pkl">>,
                   sha256 |-> Stamp(content, write_checksums)]]

\* one element of a tuple, list or mapping: `if isinstance(v, pd.DataFrame)`
RSaveElem(i, v, write_checksums) ==
    IF v.df THEN RSaveDf(ToString(i - 1), v, write_checksums)
            ELSE RSavePickle(ToString(i - 1), v, write_checksums)

\* pickle.dumps(k, protocol=5) and pickle.loads
PickleKey(k) == <<"pickle", k>>
UnpickleKey(b) == b[2]

\* variant: the key is stored as its text, str(k)
KeyB64AsText(k) ==
    <<"b64", "pickle",
      IF k = "i:42" THEN "s:42" ELSE IF k = "t:(1,2)" THEN "s:(1, 2)" ELSE k>>

\* key_b64 = b64(pickle.dumps(k, protocol=5))
KeyB64(k) == <<"b64">> \o PickleKey(k)

\* b64d(item["key_b64"])
B64d(s) == Tail(s)

\* save_result: the files written and the meta returned
RSaveResult(v, write_checksums) ==
    LET saved == [i \in 1..Len(v.elems) |-> RSaveElem(i, v.elems[i], write_checksums)]
        files == [name \in RNames |->
                    IF \E i \in 1..Len(saved) : saved[i].name = name
                    THEN saved[CHOOSE i \in 1..Len(saved) : saved[i].name = name].content
                    ELSE NoContent]
        nodes == [i \in 1..Len(saved) |->
                    [key_b64 |-> IF v.shape = "dict" THEN KeyB64(v.keys[i]) ELSE <<>>,
                     entry |-> saved[i].node]]
    IN  [files |-> files,
         meta |-> [container |-> v.shape, items |-> nodes]]

\* load_leaf: the optional check, then read_parquet or pickle.load
RLoadLeaf(files, entry, verify_checksums) ==
    LET content == files[entry.file] IN
    IF verify_checksums /\ entry.sha256 # <<>> /\ entry.sha256 # <<content>>
    THEN [ok |-> FALSE, obj |-> NoObj]
    ELSE IF entry.kind = "parquet"
         THEN [ok |-> content.fmt = "parquet", obj |-> content.obj]
         ELSE [ok |-> content.fmt = "pickle", obj |-> content.obj]

RECURSIVE Insert(_, _, _, _)
\* d[k] = v for the items from i on: a new key is appended, a key already
\* there keeps its place and gets the value
Insert(d, keys, elems, i) ==
    IF i > Len(keys) THEN d
    ELSE LET at == {j \in 1..Len(d.keys) : d.keys[j] = keys[i]}
             nd == IF at = {}
                   THEN [keys |-> Append(d.keys, keys[i]),
                         elems |-> Append(d.elems, elems[i])]
                   ELSE [keys |-> d.keys,
                         elems |-> [d.elems EXCEPT ![CHOOSE j \in at : TRUE] = elems[i]]]
         IN  Insert(nd, keys, elems, i + 1)

\* the Python value a loaded leaf object is
AsValue(o) ==
    [shape |-> IF o.df THEN "df" ELSE "other", keys |-> <<>>, elems |-> <<o>>]

\* load_result: the value, or the exception of a leaf that does not load
RLoadResult(files, m, verify_checksums) ==
    LET c == m.container
        loaded == [i \in 1..Len(m.items) |->
                     RLoadLeaf(files, m.items[i].entry, verify_checksums)]
        objs == [i \in 1..Len(loaded) |-> loaded[i].obj]
        allOk == \A i \in 1..Len(loaded) : loaded[i].ok
        Raise == [ok |-> FALSE, value |-> NoValue]
    IN  IF c \in {"df", "other"}
        THEN IF loaded[1].ok THEN [ok |-> TRUE, value |-> AsValue(objs[1])] ELSE Raise
        ELSE IF c \in {"tuple", "list"}
        THEN IF allOk THEN [ok |-> TRUE,
                            value |-> [shape |-> c, keys |-> <<>>, elems |-> objs]]
             ELSE Raise
        ELSE IF c = "dict"
        THEN IF allOk
             THEN LET ks == [i \in 1..Len(m.items) |->
                               UnpickleKey(B64d(m.items[i].key_b64))]
                      d == Insert([keys |-> <<>>, elems |-> <<>>], ks, objs, 1)
                  IN  [ok |-> TRUE,
                       value |-> [shape |-> "dict", keys |-> d.keys, elems |-> d.elems]]
             ELSE Raise
        ELSE Raise

\* meta = save_result(base, v, write_checksums=..), json.dumps(meta) written
\* and read back
REncode(v, write_checksums) ==
    /\ rPhase = "new"
    /\ rPhase' = "encoded"
    /\ rValue' = v
    /\ rFiles' = RSaveResult(v, write_checksums).files
    /\ rManifest' = RSaveResult(v, write_checksums).meta
    /\ UNCHANGED rOut
    /\ UNCHANGED othersR

\* load_result(base, meta, verify_checksums=.., strict_integrity=..)
RDecode(verify_checksums) ==
    /\ rPhase = "encoded"
    /\ rPhase' = "decoded"
    /\ rOut' = RLoadResult(rFiles, rManifest, verify_checksums)
    /\ UNCHANGED <<rValue, rFiles, rManifest>>
    /\ UNCHANGED othersR

NextR ==
    \/ \E v \in Values, write_checksums \in BOOLEAN : REncode(v, write_checksums)
    \/ \E verify_checksums \in BOOLEAN : RDecode(verify_checksums)

SpecR == Init /\ [][NextR]_<<vars, extVars>>

\* ------------------------------------- administrative helpers (SpecD)
\* Calls of two functions populate the cache root, one at a time; then one
\* entry is removed with clear(cache_root, qual, key) and the entries are
\* counted with count_key_dirs.

\* count_key_dirs: sum(1 for p in root.glob("*") if p.is_dir())
CountKeyDirs(tree, qual) ==
    Cardinality({ch \in DChildren : ch.qual = qual /\ tree[ch] \in {"dir", "entry"}})

DEntry(qual, k) == [qual |-> qual, name |-> MBase(k).name]
DLock(qual, k) == [qual |-> qual, name |-> LockPath(MBase(k)).name]

\* a call of wrapper that returns: a hit leaves the entry as it is, a miss
\* or a refresh commits under base; the lock file is gone at the end
DCall(qual, k, r) ==
    /\ dPhase = "calls" /\ dOps < MaxDOps
    /\ dTree[DLock(qual, k)] = "absent"
    /\ dOps' = dOps + 1
    /\ IF ProbeHit(r, dTree[DEntry(qual, k)] = "entry")
       THEN UNCHANGED <<dTree, dVal>>
       ELSE /\ dTree' = [dTree EXCEPT ![DEntry(qual, k)] = "entry"]
            /\ dVal' = [dVal EXCEPT ![DEntry(qual, k)] = dOps + 1]
    /\ UNCHANGED <<dPhase, dBefore, dArgs, dRemoved>>
    /\ UNCHANGED othersD

\* a call of wrapper whose process dies under the lock, before the commit:
\* base.mkdir and the lock file have happened, __exit__ has not
DCallKilled(qual, k, r) ==
    /\ dPhase = "calls" /\ dOps < MaxDOps
    /\ dTree[DLock(qual, k)] = "absent"
    /\ ~ProbeHit(r, dTree[DEntry(qual, k)] = "entry")
    /\ dOps' = dOps + 1
    /\ dTree' = [dTree EXCEPT ![DLock(qual, k)] = "file",
                              ![DEntry(qual, k)] = IF @ = "absent" THEN "dir" ELSE @]
    /\ UNCHANGED <<dVal, dPhase, dBefore, dArgs, dRemoved>>
    /\ UNCHANGED othersD

\* variant: the function directory is removed with all its entries
ClearFunctionDir(tree, qual, name) ==
    [tree |-> [ch \in DChildren |-> IF ch.qual = qual THEN "absent" ELSE tree[ch]],
     removed |-> 1]

\* clear(cache_root, qual, key): the key directory is removed with what is
\* in it; the number of directories removed is returned
ClearKey(tree, qual, name) ==
    LET ch == [qual |-> qual, name |-> name] IN
    IF tree[ch] \in {"dir", "entry"}
    THEN [tree |-> [tree EXCEPT ![ch] = "absent"], removed |-> 1]
    ELSE [tree |-> tree, removed |-> 0]

\* removed = clear(CACHE, qual, key_dir.name)
DClear(qual, k) ==
    /\ dPhase = "calls"
    /\ dPhase' = "cleared"
    /\ dBefore' = [tree |-> dTree, val |-> dVal,
                   count |-> [q \in DQuals |-> CountKeyDirs(dTree, q)]]
    /\ dArgs' = DEntry(qual, k)
    /\ dTree' = ClearKey(dTree, qual, DEntry(qual, k).name).tree
    /\ dVal' = [dVal EXCEPT ![DEntry(qual, k)] =
                    IF dTree'[DEntry(qual, k)] = "absent" THEN 0 ELSE @]
    /\ dRemoved' = ClearKey(dTree, qual, DEntry(qual, k).name).removed
    /\ UNCHANGED dOps
    /\ UNCHANGED othersD

NextD ==
    \/ \E qual \in DQuals, k \in MKeys, r \in BOOLEAN : DCall(qual, k, r)
    \/ \E qual \in DQuals, k \in MKeys, r \in BOOLEAN : DCallKilled(qual, k, r)
    \/ \E qual \in DQuals, k \in MKeys : DClear(qual, k)

SpecD == Init /\ [][NextD]_<<vars, extVars>>

\* ------------------------------------ the life of the lock (SpecL)
\* The wrapper of cache.py on one entry, the commit in two steps (leaves
\* and temporary file, then os.replace).  A frame is one activation of
\* wrapper: a call from outside, or a call func makes while it runs under
\* the lock of its caller.  The frames of one process die together.

\* the frame is inside `with _DirLock(...)`
LHeld(p) == lPc[p] \in {"dcheck", "lread", "compute", "save", "replace", "exit"}

RECURSIVE LRoot(_)
\* the outermost frame of the process of frame p
LRoot(p) == IF lParent[p] = 0 THEN p ELSE LRoot(lParent[p])

\* the lock file was left by a process that was killed
Stale == lLock # None /\ lPc[lLock] = "crashed"

\* frames are interchangeable: a new call takes the lowest idle one
LFree(q) == lPc[q] = "idle" /\ \A r \in LFrames : r < q => lPc[r] # "idle"

\* A call that has ended hands its value or exception back before anybody
\* takes another step: LReturn touches no file
NobodyDone == \A q \in LFrames : lPc[q] # "done"

\* func of frame p is not waiting for a call it made
NoChild(p) == \A q \in LFrames : lParent[q] # p

\* wrapper entered by frame q with refresh option r, up to the pre-lock
\* probe; on a miss base.mkdir, then _DirLock.__enter__
LEnter(q, r, parent) ==
    /\ NobodyDone
    /\ LFree(q)
    /\ lCalls < MaxLCalls
    /\ lCalls' = lCalls + 1
    /\ lRefresh' = [lRefresh EXCEPT ![q] = r]
    /\ lParent' = [lParent EXCEPT ![q] = parent]
    /\ lOutcome' = [lOutcome EXCEPT ![q] = "none"]
    /\ IF ProbeHit(r, lManifest # "absent")
       THEN /\ lPc' = [lPc EXCEPT ![q] = "read"]
            /\ UNCHANGED lStaleAt
       ELSE /\ lPc' = [lPc EXCEPT ![q] = "acquire"]
            /\ lStaleAt' = [lStaleAt EXCEPT ![q] = Stale]
    /\ UNCHANGED <<lLock, lManifest, lCrashes, lEnv>>
    /\ UNCHANGED othersL

\* a call from outside
LCall(q, r) ==
    /\ lParent[q] = 0
    /\ LEnter(q, r, 0)

\* func of frame p, running under the lock, calls the wrapper again with the
\* same arguments
LNestedCall(p, q) ==
    /\ lPc[p] = "compute" /\ NoChild(p)
    /\ LEnter(q, lRefresh[p], p)

\* json.loads(manifest.read_text()) and _load_result, before the lock
LRead(p) ==
    /\ NobodyDone
    /\ lPc[p] = "read"
    /\ IF lManifest = "ok"
       THEN /\ lPc' = [lPc EXCEPT ![p] = "done"]
            /\ lOutcome' = [lOutcome EXCEPT ![p] = "hit"]
            /\ UNCHANGED lStaleAt
       ELSE /\ lPc' = [lPc EXCEPT ![p] = AfterDecodeError(FALSE).pc]
            /\ lStaleAt' = [lStaleAt EXCEPT ![p] = Stale]
            /\ UNCHANGED lOutcome
    /\ UNCHANGED <<lLock, lManifest, lRefresh, lParent, lCalls,
                   lCrashes, lEnv>>
    /\ UNCHANGED othersL

\* variant: the lock file of the own process counts as acquired
LCanEnterReentrant(l, p) == IF l = None THEN TRUE ELSE LRoot(l) = LRoot(p)

\* _DirLock.__enter__ of frame p: the exclusive create succeeds
LCanEnter(l, p) == CanCreate(l)

LAcquire(p) ==
    /\ NobodyDone
    /\ lPc[p] = "acquire"
    /\ LCanEnter(lLock, p)
    /\ lLock' = p
    /\ lPc' = [lPc EXCEPT ![p] = "dcheck"]
    /\ UNCHANGED <<lManifest, lRefresh, lParent, lOutcome, lStaleAt,
                   lCalls, lCrashes, lEnv>>
    /\ UNCHANGED othersL

\* variant: a caller that times out removes the lock file it waited for
LLockTimeoutBreaksLock(p) ==
    /\ NobodyDone
    /\ lPc[p] = "acquire"
    /\ ~LCanEnter(lLock, p)
    /\ lLock' = None
    /\ lOutcome' = [lOutcome EXCEPT ![p] = "timeout"]
    /\ lPc' = [lPc EXCEPT ![p] = "done"]
    /\ UNCHANGED <<lManifest, lRefresh, lParent, lStaleAt,
                   lCalls, lCrashes, lEnv>>
    /\ UNCHANGED othersL

\* variant: the polling loop has no timeout
LLockWaitsForever(p) ==
    /\ NobodyDone
    /\ lPc[p] = "acquire"
    /\ ~LCanEnter(lLock, p)
    /\ UNCHANGED lifeVars
    /\ UNCHANGED othersL

\* _DirLock.__enter__: FileExistsError and the timeout has passed
LLockTimeout(p) ==
    /\ NobodyDone
    /\ lPc[p] = "acquire"
    /\ ~LCanEnter(lLock, p)
    /\ lLock' = LockAfterTimeout(lLock)
    /\ lOutcome' = [lOutcome EXCEPT ![p] = "timeout"]
    /\ lPc' = [lPc EXCEPT ![p] = "done"]
    /\ UNCHANGED <<lManifest, lRefresh, lParent, lStaleAt,
                   lCalls, lCrashes, lEnv>>
    /\ UNCHANGED othersL

\* the double-check under the lock
LDoubleCheck(p) ==
    /\ NobodyDone
    /\ lPc[p] = "dcheck"
    /\ lPc' = [lPc EXCEPT ![p] =
                  IF ProbeHit(lRefresh[p], lManifest # "absent")
                  THEN "lread" ELSE "compute"]
    /\ UNCHANGED <<lLock, lManifest, lRefresh, lParent, lOutcome, lStaleAt, lCalls, lCrashes, lEnv>>
    /\ UNCHANGED othersL

\* json.loads(manifest.read_text()) and _load_result, under the lock
LReadLocked(p) ==
    /\ NobodyDone
    /\ lPc[p] = "lread"
    /\ IF lManifest = "ok"
       THEN /\ lPc' = [lPc EXCEPT ![p] = "exit"]
            /\ lOutcome' = [lOutcome EXCEPT ![p] = "hit"]
       ELSE /\ lPc' = [lPc EXCEPT ![p] = AfterDecodeError(TRUE).pc]
            /\ UNCHANGED lOutcome
    /\ UNCHANGED <<lLock, lManifest, lRefresh, lParent, lStaleAt,
                   lCalls, lCrashes, lEnv>>
    /\ UNCHANGED othersL

\* result = func(*args, **kwargs) returns, the calls it made have returned
LCompute(p) ==
    /\ NobodyDone
    /\ lPc[p] = "compute" /\ NoChild(p)
    /\ lPc' = [lPc EXCEPT ![p] = "save"]
    /\ UNCHANGED <<lLock, lManifest, lRefresh, lParent, lOutcome, lStaleAt,
                   lCalls, lCrashes, lEnv>>
    /\ UNCHANGED othersL

\* func raises: its own exception, or the one of a call it made
LComputeRaise(p) ==
    /\ NobodyDone
    /\ lPc[p] = "compute" /\ NoChild(p)
    /\ lOutcome' = [lOutcome EXCEPT ![p] = "func_error"]
    /\ lPc' = [lPc EXCEPT ![p] = "exit"]
    /\ UNCHANGED <<lLock, lManifest, lRefresh, lParent, lStaleAt,
                   lCalls, lCrashes, lEnv>>
    /\ UNCHANGED othersL

\* _save_result and the temporary file of _atomic_write_text are written
LSave(p) ==
    /\ NobodyDone
    /\ lPc[p] = "save"
    /\ lPc' = [lPc EXCEPT ![p] = "replace"]
    /\ UNCHANGED <<lLock, lManifest, lRefresh, lParent, lOutcome, lStaleAt, lCalls, lCrashes, lEnv>>
    /\ UNCHANGED othersL

\* _save_result raises
LSaveRaise(p) ==
    /\ NobodyDone
    /\ lPc[p] = "save"
    /\ lOutcome' = [lOutcome EXCEPT ![p] = "commit_error"]
    /\ lPc' = [lPc EXCEPT ![p] = "exit"]
    /\ UNCHANGED <<lLock, lManifest, lRefresh, lParent, lStaleAt,
                   lCalls, lCrashes, lEnv>>
    /\ UNCHANGED othersL

\* os.replace(tmp, manifest); `return result`
LReplace(p) ==
    /\ NobodyDone
    /\ lPc[p] = "replace"
    /\ lManifest' = "ok"
    /\ lOutcome' = [lOutcome EXCEPT ![p] = "computed"]
    /\ lPc' = [lPc EXCEPT ![p] = "exit"]
    /\ UNCHANGED <<lLock, lRefresh, lParent, lStaleAt, lCalls,
                   lCrashes, lEnv>>
    /\ UNCHANGED othersL

\* _DirLock.__exit__
LExit(p) ==
    /\ NobodyDone
    /\ lPc[p] = "exit"
    /\ lLock' = LockAfterExit(lLock)
    /\ lPc' = [lPc EXCEPT ![p] = "done"]
    /\ UNCHANGED <<lManifest, lRefresh, lParent, lOutcome, lStaleAt,
                   lCalls, lCrashes, lEnv>>
    /\ UNCHANGED othersL

\* wrapper has returned or raised: its frame is gone, and func of the
\* calling frame goes on
LReturn(p) ==
    /\ lPc[p] = "done"
    /\ lPc' = [lPc EXCEPT ![p] = "idle"]
    /\ lParent' = [lParent EXCEPT ![p] = 0]
    /\ lRefresh' = [lRefresh EXCEPT ![p] = FALSE]
    /\ lOutcome' = [lOutcome EXCEPT ![p] = "none"]
    /\ lStaleAt' = [lStaleAt EXCEPT ![p] = FALSE]
    /\ UNCHANGED <<lLock, lManifest, lCalls, lCrashes, lEnv>>
    /\ UNCHANGED othersL

\* the process of outermost frame p is killed while one of its frames is
\* inside the with block: no __exit__ runs, its files stay as they are
LCrash(p) ==
    /\ NobodyDone
    /\ lCrashes < MaxCrash
    /\ lParent[p] = 0
    /\ \E q \in LFrames : LRoot(q) = p /\ LHeld(q)
    /\ lCrashes' = lCrashes + 1
    /\ lPc' = [q \in LFrames |->
                  IF LRoot(q) = p /\ lPc[q] # "idle" THEN "crashed" ELSE lPc[q]]
    /\ UNCHANGED <<lLock, lManifest, lRefresh, lParent, lOutcome, lStaleAt, lCalls, lEnv>>
    /\ UNCHANGED othersL

\* somebody removes the lock file a killed process left
LEnvRemoveLock ==
    /\ NobodyDone
    /\ lEnv < MaxLEnv
    /\ Stale
    /\ lLock' = None
    /\ lStaleAt' = [p \in LFrames |-> FALSE]
    /\ lEnv' = lEnv + 1
    /\ UNCHANGED <<lManifest, lPc, lRefresh, lParent, lOutcome, lCalls, lCrashes>>
    /\ UNCHANGED othersL

\* somebody overwrites the manifest while no call is running
LEnvCorruptManifest ==
    /\ NobodyDone
    /\ lEnv < MaxLEnv
    /\ \A p \in LFrames : lPc[p] \in {"idle", "crashed"}
    /\ lManifest = "ok"
    /\ lManifest' = "bad"
    /\ lEnv' = lEnv + 1
    /\ UNCHANGED <<lLock, lPc, lRefresh, lParent, lOutcome, lStaleAt,
                   lCalls, lCrashes>>
    /\ UNCHANGED othersL

\* a step of wrapper in frame p
LStep(p) ==
    \/ LRead(p) \/ LAcquire(p) \/ LLockTimeout(p) \/ LDoubleCheck(p)
    \/ LReadLocked(p) \/ LCompute(p) \/ LComputeRaise(p) \/ LSave(p)
    \/ LSaveRaise(p) \/ LReplace(p) \/ LExit(p)

NextL ==
    \/ \E q \in LFrames, r \in BOOLEAN : LCall(q, r)
    \/ \E p, q \in LFrames : LNestedCall(p, q)
    \/ \E p \in LFrames : LRead(p)
    \/ \E p \in LFrames : LAcquire(p)
    \/ \E p \in LFrames : LLockTimeout(p)
    \/ \E p \in LFrames : LDoubleCheck(p)
    \/ \E p \in LFrames : LReadLocked(p)
    \/ \E p \in LFrames : LCompute(p)
    \/ \E p \in LFrames : LComputeRaise(p)
    \/ \E p \in LFrames : LSave(p)
    \/ \E p \in LFrames : LSaveRaise(p)
    \/ \E p \in LFrames : LReplace(p)
    \/ \E p \in LFrames : LExit(p)
    \/ \E p \in LFrames : LReturn(p)
    \/ \E p \in LFrames : LCrash(p)
    \/ LEnvRemoveLock
    \/ LEnvCorruptManifest

SpecL == Init /\ [][NextL]_<<vars, extVars>>

\* a process that is alive keeps running: every frame takes its next step
\* of wrapper (the polling loop of __enter__ creates the lock file or runs
\* into its timeout, func returns or raises) and hands its result back
SpecLF ==
    /\ SpecL
    /\ \A p \in LFrames : WF_lifeVars(LStep(p)) /\ WF_lifeVars(LReturn(p))

\* ------------------------------------------------------------- claims

\* C1: when all calls have refresh=false, the entry starts without a manifest,
\* nothing outside the engine touches it and nothing raises, func is executed
\* at most once, and every call that returns returns the value of that one
\* execution, the same value as every call that returned before it: the
\* winner its result, the others the decoded commit.
C1_ExactlyOneCompute ==
    (~disturbed /\ envCount = 0) =>
        /\ computeCount <= 1
        /\ \A p \in Procs : Returns(p) =>
              /\ computeCount = 1
              /\ IsMeta(manifest)
              /\ Returned(p) = CommitValue(manifest)
              /\ firstReturned # <<>> => Returned(p) = firstReturned

\* two calls raced from the pre-lock miss: one computed and returned, the
\* other hit on the double-check
C1_Witness ==
    /\ ~disturbed /\ envCount = 0 /\ computeCount = 1
    /\ \E q \in Procs :
          /\ Returns(q) /\ outcome[q] = "hit" /\ Acquired(q)
          /\ "probe" \in missed[q]
          /\ firstReturned = Returned(q)

\* C2: a caller that returns a decoded value returns the leaves of the one
\* commit whose manifest it read, never leaves of another or unfinished commit.
C2_OneCommittedResult ==
    \A p \in Procs : \A i \in 1..Len(acc[p]) : acc[p][i] = meta[p].c

\* C3: at most one caller is between lock acquisition and release, and the
\* lock file is the one it created.
C3_MutualExclusion ==
    /\ Cardinality({p \in Procs : held[p]}) <= 1
    /\ \A p \in Procs : held[p] => lock = p

\* a caller computes under the lock while another one polls for it
C3_Witness ==
    \E p, q \in Procs : held[p] /\ pc[p] = "save_write" /\ pc[q] = "acquire"

\* C4: whenever manifest.json is visible, every leaf it references that no
\* external actor damaged is fully written by the commit of that manifest; the
\* rename happens after all leaves of the commit are written.
C4_ManifestImpliesLeaves ==
    /\ IsMeta(manifest) =>
          \A i \in 1..manifest.n :
              \/ leaves[i].st = "corrupt"
              \/ leaves[i].st = "full" /\ leaves[i].c = manifest.c
    /\ \A p \in Procs : pc[p] = "replace" => ValidManifest(tmp, leaves)

\* C5: no step of the engine changes a leaf file that the visible manifest
\* references.
C5_NoInPlaceWrite ==
    [][\A i \in LeafIdx :
          (IsMeta(manifest) /\ i <= manifest.n /\ envCount' = envCount)
              => leaves'[i] = leaves[i]]_vars

\* C6: a refresh=false call that hits on the pre-lock probe returns the value
\* of the commit whose manifest it read, runs func zero times and writes
\* nothing.
C6_HotHitNoWrites ==
    \A p \in Procs :
        (pc[p] = "done" /\ outcome[p] = "hit" /\ ~Acquired(p)) =>
            /\ ~refresh[p]
            /\ execs[p] = 0
            /\ writes[p] = {}
            /\ acc[p] = CommitValue(meta[p])

\* C7: a refresh=true call never reads the cache, neither before nor under
\* the lock; unless it timed out on the lock it runs func exactly once, and
\* when it returns it has written its leaves and its manifest is the
\* published one.
C7_RefreshAlwaysRecomputes ==
    \A p \in Procs : refresh[p] =>
        /\ outcome[p] # "hit"
        /\ pc[p] \notin {"readmeta", "load"}
        /\ (pc[p] = "done" /\ outcome[p] # "timeout") => execs[p] = 1
        /\ Returns(p) =>
              /\ outcome[p] = "computed"
              /\ {"leaf", "manifest"} \subseteq writes[p]
              /\ pubValid[p]
              /\ manifest = result[p]

\* a refresh=true call ran the second execution and returned, although the
\* first execution was published and had been returned to a caller
C7_Witness ==
    \E p \in Procs :
        /\ refresh[p] /\ Returns(p) /\ result[p].c = 2
        /\ envCount = 0
        /\ firstReturned # <<>> /\ \A i \in 1..Len(firstReturned) : firstReturned[i] = 1

\* C8: a call that timed out on the lock has ended, did not run func, wrote
\* no leaf, temporary or manifest file and removed no lock file.
C8_TimeoutIsFatal ==
    \A p \in Procs : outcome[p] = "timeout" =>
        /\ pc[p] = "done"
        /\ execs[p] = 0
        /\ writes[p] \subseteq {"dir"}
        /\ ~held[p]

\* a call timed out and the holder still has the lock
C8_Witness ==
    \E p, q \in Procs :
        /\ pc[p] = "done" /\ outcome[p] = "timeout"
        /\ held[q] /\ lock = q

\* C9: a call that acquired the lock and has finished, however it finished,
\* removed its lock file.
C9_LockReleased ==
    \A p \in Procs : (pc[p] = "done" /\ Acquired(p)) =>
        /\ lock # p
        /\ "unlock" \in writes[p]

\* a call finished by an exception of the commit: the lock file is gone
C9_Witness ==
    \E p \in Procs :
        /\ pc[p] = "done" /\ Acquired(p) /\ outcome[p] = "commit_error"
        /\ lock = None

\* C10: a refresh=false call whose pre-lock probe missed (manifest missing or
\* not decodable) raises no decode error and goes for the lock; when the
\* double-check missed as well and neither func nor the commit raised, it has
\* run func once, published a valid manifest and returned the computed value.
C10_MissRecovers ==
    \A p \in Procs : ~refresh[p] =>
        /\ outcome[p] # "decode_error"
        /\ (pc[p] = "done" /\ "probe" \in missed[p]) =>
              Acquired(p) \/ outcome[p] = "timeout"
        /\ (pc[p] = "done" /\ {"probe", "dcheck"} \subseteq missed[p]
               /\ outcome[p] \notin {"func_error", "commit_error"}) =>
              /\ outcome[p] = "computed"
              /\ execs[p] = 1
              /\ pubValid[p]
              /\ Returned(p) = CommitValue(result[p])

\* a published entry was damaged from outside, and the next call recomputed
\* and republished it
C10_Witness ==
    \E p \in Procs :
        /\ ~disturbed /\ envCount = 1
        /\ Returns(p) /\ outcome[p] = "computed" /\ result[p].c = 2
        /\ {"probe", "dcheck"} \subseteq missed[p]
        /\ manifest = result[p] /\ ValidManifest(manifest, leaves)

\* C13: a call that read a manifest of an unknown container kind ends with an
\* error, never with a returned value.
C13_UnknownKindFatal ==
    \A p \in Procs :
        (pc[p] = "done" /\ UnknownContainer(meta[p])) => ~Returns(p)

\* some leaf of manifest m carries a stamp that the file in lv does not have:
\* another digest, or another size
StampBroken(m, lv) ==
    \E i \in 1..Len(m.items) :
        LET e == LeafEntry(m, i)
            f == lv[e.file]
        IN  /\ e.sha256 # NoSha
            /\ \/ e.sha256 # [st |-> f.st, c |-> f.c, sz |-> f.sz]
               \/ e.size # NoSize /\ e.size # f.sz

\* the call is a refresh=false call that found a readable manifest
IReads == ~iOpts.refresh /\ IsMeta(iBefore.manifest)

\* C11: a verifying call with strict_integrity=true that finds a stamped leaf
\* whose digest or size differs from the stamp ends with the integrity error,
\* has not run func, and manifest, leaves, temporary file and lock are as
\* they were when it started.
C11_StrictMismatchRaises ==
    (/\ iPc = "done" /\ iOpts.strict_integrity
     /\ \/ iFound
        \/ /\ IReads /\ iOpts.verify_checksums
           /\ StampBroken(iBefore.manifest, iBefore.leaves)) =>
        /\ iOutcome = "integrity_error"
        /\ iExecs = 0
        /\ iManifest = iBefore.manifest
        /\ iLeaves = iBefore.leaves
        /\ iTmp = NoManifest
        /\ iLock = None

\* a leaf of a published, stamped entry was overwritten from outside and the
\* next strict call raised
C11_Witness ==
    /\ iPc = "done" /\ iOutcome = "integrity_error" /\ iFound
    /\ iOpts.strict_integrity /\ iOpts.verify_checksums
    /\ \E i \in LeafIdx : iLeaves[i].st = "garbled"

\* C12: a verifying call with strict_integrity=false that finds such a
\* mismatch raises no integrity error; unless func or the commit raises, it
\* runs func once, rewrites the leaves, republishes the manifest and returns
\* the fresh result, and every stamped leaf then matches its stamp.
C12_NonStrictMismatchHeals ==
    (/\ iPc = "done" /\ ~iOpts.strict_integrity
     /\ \/ iFound
        \/ /\ IReads /\ iOpts.verify_checksums
           /\ StampBroken(iBefore.manifest, iBefore.leaves)) =>
        /\ iOutcome \in {"computed", "func_error", "commit_error"}
        /\ iOutcome = "computed" =>
              /\ iExecs = 1 /\ iResult.c = iCount
              /\ IsMeta(iManifest) /\ iManifest.c = iResult.c
              /\ iManifest.container = iResult.container
              /\ Len(iManifest.items) = iResult.n
              /\ \A i \in 1..iResult.n :
                    /\ LeafEntry(iManifest, i).file = i
                    /\ iLeaves[i].st = "full" /\ iLeaves[i].c = iResult.c
              /\ ~StampBroken(iManifest, iLeaves)
              /\ iLock = None

\* a garbled leaf was found by a non-strict verifying call, which recomputed
\* and republished with stamps
C12_Witness ==
    /\ iPc = "done" /\ iOutcome = "computed" /\ iFound
    /\ ~iOpts.strict_integrity /\ iOpts.write_checksums
    /\ \E i \in LeafIdx : iBefore.leaves[i].st = "garbled"
    /\ ~StampBroken(iManifest, iLeaves)

\* C15: the manifest a call has just published has one descriptor per leaf;
\* with write_checksums=false none of them has a digest or a size, with
\* write_checksums=true each has both, those of the leaf file this commit
\* wrote, whatever the container kind.
C15_StampsFollowWriteChecksums ==
    (iPc \in {"exit", "done"} /\ iOutcome = "computed") =>
        /\ iManifest.container = iResult.container
        /\ Len(iManifest.items) = iResult.n
        /\ \A i \in 1..iResult.n :
              LET e == LeafEntry(iManifest, i)
                  f == iLeaves[i]
              IN  /\ e.file = i
                  /\ f.st = "full" /\ f.c = iResult.c
                  /\ IF iOpts.write_checksums
                     THEN /\ e.sha256 = [st |-> f.st, c |-> f.c, sz |-> f.sz]
                          /\ e.size = f.sz
                     ELSE /\ e.sha256 = NoSha
                          /\ e.size = NoSize

\* a mapping of two leaves was committed with write_checksums=true over an
\* entry that an earlier call had committed
C15_Witness ==
    /\ iPc = "done" /\ iOutcome = "computed" /\ iOpts.write_checksums
    /\ iResult.container = "dict" /\ iResult.n = 2 /\ iResult.c = 2
    /\ \A i \in 1..2 : iManifest.items[i].entry.sha256 # NoSha

\* C16: a digest is computed on read only with verify_checksums=true and for
\* a descriptor that has a stamp.  A refresh=false call on a readable
\* manifest whose leaf files all load is a hit without any check when
\* verify_checksums=false, whatever the stamps say, and also when
\* verify_checksums=true and no descriptor has a stamp.
C16_VerifyOnlyIfEnabledAndStamped ==
    /\ \A i \in iChecked :
          iOpts.verify_checksums /\ LeafEntry(iMeta, i).sha256 # NoSha
    /\ (/\ iPc = "done" /\ IReads
        /\ \A i \in 1..Len(iBefore.manifest.items) :
              iBefore.leaves[LeafEntry(iBefore.manifest, i).file].st = "full"
        /\ \/ ~iOpts.verify_checksums
           \/ \A i \in 1..Len(iBefore.manifest.items) :
                 LeafEntry(iBefore.manifest, i).sha256 = NoSha) =>
            /\ iOutcome = "hit"
            /\ iChecked = {}
            /\ ~iFound
            /\ iExecs = 0
            /\ Len(iAcc) = Len(iBefore.manifest.items)
            /\ \A i \in 1..Len(iAcc) :
                  iAcc[i] = iBefore.leaves[LeafEntry(iBefore.manifest, i).file].c

\* with verify_checksums=false a call hit on an entry whose stamp does not
\* match the leaf file
C16_Witness ==
    /\ iPc = "done" /\ iOutcome = "hit" /\ ~iOpts.verify_checksums
    /\ iOpts.strict_integrity
    /\ StampBroken(iBefore.manifest, iBefore.leaves)

\* both calls were made, through wrappers without key_fn, for the same
\* function, version tag and positional arguments
SameAutoCalls ==
    /\ kPhase = "called_twice" /\ kOpts.key_fn = "none"
    /\ kFirst.qual = kSecond.qual /\ kFirst.version = kSecond.version
    /\ kFirst.args = kSecond.args

\* the keyword arguments of call c that are not named in exclude_from_key,
\* in call-site order
Kept(c) == SelectSeq(c.kwargs, LAMBDA kv : kv[1] \notin kOpts.exclude_from_key)

\* the names and values of the keyword arguments kw, whatever their order
Items(kw) == {kw[i] : i \in 1..Len(kw)}

\* C17 as stated: for two calls with the same identity, version, positional
\* arguments and keyword names and values, canonicalize_kwargs=true gives the
\* same fingerprint, and canonicalize_kwargs=false gives different
\* fingerprints whenever the keyword order differs.
C17_KwargOrder ==
    (SameAutoCalls /\ Items(kFirst.kwargs) = Items(kSecond.kwargs)) =>
        /\ kOpts.canonicalize_kwargs => kFirst.key = kSecond.key
        /\ (~kOpts.canonicalize_kwargs /\ kFirst.kwargs # kSecond.kwargs) =>
              kFirst.key # kSecond.key

\* C17 as amended: with canonicalize_kwargs=false the fingerprints differ
\* when the keyword arguments not named in exclude_from_key differ in order
\* (and are equal when those are in the same order).
C17_KeptKwargOrder ==
    (SameAutoCalls /\ Items(kFirst.kwargs) = Items(kSecond.kwargs)) =>
        /\ kOpts.canonicalize_kwargs => kFirst.key = kSecond.key
        /\ ~kOpts.canonicalize_kwargs =>
              (kFirst.key # kSecond.key <=> Kept(kFirst) # Kept(kSecond))

\* with canonicalize_kwargs=false and "n" excluded, f(a, b, n) and
\* f(n, b, a) got different fingerprints and the second call computed
C17_Witness ==
    /\ SameAutoCalls /\ ~kOpts.canonicalize_kwargs
    /\ kOpts.exclude_from_key = {"n"}
    /\ Items(kFirst.kwargs) = Items(kSecond.kwargs) /\ Len(kFirst.kwargs) = 3
    /\ Kept(kFirst) # Kept(kSecond)
    /\ kFirst.key # kSecond.key /\ kSecond.outcome = "computed"

\* C18 as stated: two calls that agree on identity, version, positional
\* arguments and every keyword argument not named in exclude_from_key have
\* the same fingerprint, and the second is served from the first's entry.
C18_ExcludedIgnored ==
    (SameAutoCalls /\ Items(Kept(kFirst)) = Items(Kept(kSecond))) =>
        /\ kFirst.key = kSecond.key
        /\ kSecond.outcome = "hit" /\ kSecond.val = kFirst.val

\* C18 as amended: ... and, with canonicalize_kwargs=false, give the keyword
\* arguments not named in exclude_from_key in the same order.
C18_ExcludedIgnoredInOrder ==
    (/\ SameAutoCalls /\ Items(Kept(kFirst)) = Items(Kept(kSecond))
     /\ kOpts.canonicalize_kwargs \/ Kept(kFirst) = Kept(kSecond)) =>
        /\ kFirst.key = kSecond.key /\ kFirst.base = kSecond.base
        /\ kSecond.outcome = "hit" /\ kSecond.val = kFirst.val
        /\ kCount = 1

\* "n" is excluded; the first call passed n="1", the second passed n="2" at
\* another position, and was served from the first call's entry
C18_Witness ==
    /\ SameAutoCalls /\ kOpts.exclude_from_key = {"n"}
    /\ ~kOpts.canonicalize_kwargs
    /\ \E i, j \in 1..3 : /\ i # j /\ Len(kFirst.kwargs) = 3 /\ Len(kSecond.kwargs) = 3
                           /\ kFirst.kwargs[i] = <<"n", "1">>
                           /\ kSecond.kwargs[j] = <<"n", "2">>
    /\ kFirst.key = kSecond.key /\ kSecond.outcome = "hit"

\* C19: two calls of the same function with equal arguments through
\* wrappers that differ only in the version tag resolve to different entry
\* directories, and the second does not return the first's cached result.
C19_VersionSegregates ==
    (/\ kPhase = "called_twice" /\ kOpts.key_fn = "none"
     /\ kFirst.qual = kSecond.qual /\ kFirst.args = kSecond.args
     /\ kFirst.kwargs = kSecond.kwargs
     /\ kFirst.version # kSecond.version) =>
        /\ kFirst.base # kSecond.base
        /\ kSecond.outcome = "computed" /\ kSecond.val # kFirst.val

\* C20: with key_fn the entry directory is the function identity and
\* key_fn's value for the raw arguments, whatever version, exclude_from_key,
\* canonicalize_kwargs and the other arguments are: two calls of one function
\* with the same key_fn value share the entry and the second returns the
\* first's result without running func; calls of different functions or
\* with different key_fn values do not share it.
C20_KeyFnOverrides ==
    (kPhase = "called_twice" /\ kOpts.key_fn # "none") =>
        /\ kFirst.base = [qual |-> kFirst.qual, key |-> <<"arg0", kFirst.args[1]>>]
        /\ kSecond.base = [qual |-> kSecond.qual, key |-> <<"arg0", kSecond.args[1]>>]
        /\ IF kFirst.qual = kSecond.qual /\ kFirst.args[1] = kSecond.args[1]
           THEN /\ kSecond.base = kFirst.base
                /\ kSecond.outcome = "hit" /\ kSecond.val = kFirst.val
                /\ kCount = 1
           ELSE /\ kSecond.base # kFirst.base
                /\ kSecond.outcome = "computed" /\ kCount = 2

\* the two calls differ in version tag and keyword arguments, key_fn gives
\* the same key, and the second call returned the first's result
C20_Witness ==
    /\ kPhase = "called_twice" /\ kOpts.key_fn # "none"
    /\ kFirst.version # kSecond.version
    /\ Items(kFirst.kwargs) # Items(kSecond.kwargs)
    /\ kFirst.base = kSecond.base
    /\ kSecond.outcome = "hit" /\ kSecond.val = kFirst.val /\ kCount = 1

\* the paths of the entry of fingerprint k: its directory, everything in
\* it, and its lock file
Owns(k, path) == path.name = <<k>> \/ path.name = <<k, ".lock">>

\* caller p has the lock of its entry
HoldsLock(p) == mPc[p] \in {"dcheck", "compute", "save", "write_tmp", "replace", "exit"}

\* C14 (no delay): a caller at the lock can take it unless a caller of the
\* same fingerprint holds it, whatever callers of other fingerprints hold or
\* wait for, and a caller past the lock can always take its next step of
\* the double-check, the computation, the commit and the release.
C14_NeverDelayed ==
    \A p \in MProcs :
        /\ mPc[p] = "acquire" =>
              \/ ENABLED MAcquire(p)
              \/ \E q \in MProcs \ {p} : mKey[q] = mKey[p] /\ HoldsLock(q)
        /\ mPc[p] = "dcheck" => ENABLED MDoubleCheck(p)
        /\ mPc[p] = "compute" => ENABLED MCompute(p)
        /\ mPc[p] = "save" => ENABLED MSaveLeaf(p)
        /\ mPc[p] = "write_tmp" => ENABLED MWriteTmp(p)
        /\ mPc[p] = "replace" => ENABLED MReplace(p)
        /\ mPc[p] = "exit" => ENABLED MExit(p)

\* C14 (no foreign file): a step of a caller creates, writes or removes
\* only paths of the entry of its own fingerprint.
C14_OwnFilesOnly ==
    \A p \in MProcs :
        mPc'[p] # mPc[p] =>
            \A path \in MPaths :
                mFs'[path] # mFs[path] => Owns(mKey'[p], path)

\* C14: calls for different fingerprints are independent.
C14_Independent == []C14_NeverDelayed /\ [][C14_OwnFilesOnly]_multiVars

\* a caller has committed its entry while a caller of another fingerprint
\* holds the lock of that one and a third caller waits for it
C14_Witness ==
    \E p, q, w \in MProcs :
        /\ mKey[w] = mKey[p] /\ w # p /\ mPc[w] = "acquire"
        /\ mKey[p] # mKey[q] /\ mKey[p] # "" /\ mKey[q] # ""
        /\ mPc[p] = "compute" /\ mPc[q] = "exit"
        /\ mFs[ManifestPath(MBase(mKey[q]))] = FileBy(q)
        /\ mFs[LockPath(MBase(mKey[p]))] = FileBy(p)
        /\ mFs[LockPath(MBase(mKey[q]))] = FileBy(q)
        /\ ~MExists(ManifestPath(MBase(mKey[p])))

\* C21: for a value of any supported shape, load_result on the manifest and
\* leaf files save_result produced returns that value: same shape (a tuple a
\* tuple, a list a list), same elements in the same order, same mapping
\* keys with their types.
C21_RoundTrip ==
    rPhase = "decoded" => rOut = [ok |-> TRUE, value |-> rValue]

\* a mapping with an integer and a tuple key, one value a DataFrame stored
\* as parquet, came back
C21_Witness ==
    /\ rPhase = "decoded" /\ rOut.ok
    /\ rOut.value.shape = "dict"
    /\ rOut.value.keys = <<"t:(1,2)", "i:42">>
    /\ rOut.value.elems[1].df /\ rManifest.items[1].entry.kind = "parquet"
    /\ ~rOut.value.elems[2].df

\* C22: clear of an entry that exists returns 1, count_key_dirs of its
\* function is one less than before, the entry is gone, and every other
\* child of that function and of the other functions is as it was, with the
\* count of the other functions.
C22_ClearOneEntry ==
    (dPhase = "cleared" /\ dBefore.tree[dArgs] \in {"dir", "entry"}) =>
        /\ dRemoved = 1
        /\ CountKeyDirs(dTree, dArgs.qual) = dBefore.count[dArgs.qual] - 1
        /\ dTree[dArgs] = "absent"
        /\ \A ch \in DChildren \ {dArgs} :
              dTree[ch] = dBefore.tree[ch] /\ dVal[ch] = dBefore.val[ch]
        /\ \A q \in DQuals \ {dArgs.qual} :
              CountKeyDirs(dTree, q) = dBefore.count[q]

\* one of two entries of a function was removed, the sibling and an entry
\* of the other function are still there
C22_Witness ==
    /\ dPhase = "cleared" /\ dRemoved = 1
    /\ dBefore.count[dArgs.qual] = 2 /\ CountKeyDirs(dTree, dArgs.qual) = 1
    /\ \E q \in DQuals \ {dArgs.qual} : CountKeyDirs(dTree, q) = 1
    /\ \E ch \in DChildren : ch.qual = dArgs.qual /\ dTree[ch] = "entry" /\ dVal[ch] > 0

\* a refresh=false call finds a value to return: the manifest parses and
\* every leaf it references loads
Loadable(m, lv) == IsMeta(m) /\ \A i \in 1..m.n : LeafLoads(lv[i])

\* C26: a call in which func raised ends with that error after one
\* execution, has created or changed no leaf, temporary or manifest file,
\* has removed its lock file, and leaves nothing a call through the same
\* wrapper would be served from: with refresh=false the entry is still not
\* loadable, so the next call runs func again.
C26_FuncErrorNotCached ==
    \A p \in Procs : outcome[p] = "func_error" =>
        /\ pc[p] \in {"exit", "done"}
        /\ execs[p] = 1
        /\ writes[p] \cap {"leaf", "tmp", "manifest"} = {}
        /\ tmp = NoFile
        /\ pc[p] = "done" =>
              /\ ~Returns(p)
              /\ ~held[p] /\ lock # p /\ "unlock" \in writes[p]
              /\ ~refresh[p] => ~Loadable(manifest, leaves)

\* func raised in a refresh=false call on an entry without manifest: the
\* call has ended, the lock file is gone and there is still no manifest
C26_Witness ==
    \E p \in Procs :
        /\ pc[p] = "done" /\ outcome[p] = "func_error" /\ ~refresh[p]
        /\ {"probe", "dcheck"} \subseteq missed[p]
        /\ lock = None /\ ~Exists(manifest) /\ computeCount = 2

\* C27: after a commit that failed partway in an entry with a published
\* manifest, every leaf file that manifest references is as its commit
\* wrote it (or as an external actor damaged it before).
C27_FailedCommitKeepsEntry ==
    \A p \in Procs :
        (pc[p] = "done" /\ outcome[p] = "commit_error" /\ IsMeta(manifest)) =>
            \A i \in 1..manifest.n :
                \/ leaves[i].st = "corrupt"
                \/ leaves[i].st = "full" /\ leaves[i].c = manifest.c

\* frame q runs a call that func of another frame made
Nested(q) == lParent[q] # 0 /\ lPc[q] # "idle"

\* C24: a call made by func while it runs under the lock of its entry, for
\* the same fingerprint, never gets past lock acquisition: at the lock it
\* finds the lock file of its own caller and cannot create it, it never is
\* inside the with block and never runs func, and it ends with the cached
\* value it read before the lock or with a lock timeout.
C24_NotReentrant ==
    \A q \in LFrames : Nested(q) =>
        /\ lPc[q] \in {"read", "acquire", "done", "crashed"}
        /\ ~LHeld(q) /\ lLock # q
        /\ lPc[q] = "acquire" => lLock = lParent[q] /\ ~ENABLED LAcquire(q)
        /\ lPc[q] = "done" => lOutcome[q] \in {"hit", "timeout"}

\* func of a frame that holds the lock called the wrapper again, and that
\* call timed out on the lock of its own caller
C24_Witness ==
    \E p, q \in LFrames :
        /\ lParent[q] = p /\ lPc[p] = "compute" /\ lLock = p
        /\ lPc[q] = "done" /\ lOutcome[q] = "timeout"

\* C25 (state): while the lock file of a killed process is there, no frame
\* is inside the with block, and a call that reached lock acquisition with
\* that file in place waits or has ended in a lock timeout.
C25_StaleLockBlocks ==
    /\ \A p \in LFrames : LHeld(p) => lLock = p
    /\ \A q \in LFrames : lStaleAt[q] =>
          /\ Stale
          /\ lPc[q] \in {"acquire", "done", "crashed"}
          /\ lPc[q] = "done" => lOutcome[q] = "timeout"

\* C25 (step): a lock file goes away only by __exit__ of the frame that
\* created it, or by an external actor.
C25_OnlyCreatorRemoves ==
    (lLock # None /\ lLock' # lLock) =>
        \/ lPc[lLock] = "exit" /\ lPc'[lLock] = "done" /\ lLock' = None
        \/ lEnv' # lEnv

\* C25: the engine never removes a lock file it did not create; the lock
\* file of a killed holder stays and makes every call that reaches lock
\* acquisition time out, until it is removed externally.
C25_StaleLockStays == []C25_StaleLockBlocks /\ [][C25_OnlyCreatorRemoves]_lifeVars

\* a holder was killed, its lock file is there, and a later call that
\* missed on the probe has ended in a lock timeout
C25_Witness ==
    \E p, q \in LFrames :
        /\ lPc[p] = "crashed" /\ lLock = p /\ lEnv = 0
        /\ lStaleAt[q] /\ lPc[q] = "done" /\ lOutcome[q] = "timeout"
        /\ lParent[q] = 0

\* the frame is in a call that has not ended
Running(p) == lPc[p] \notin {"idle", "done", "crashed"}

\* C23 (state): a call that ended did so with a hit, a computed value, an
\* error of func or of the commit, or a lock timeout; a running frame can
\* always take its next step, unless func waits for a call it made.
C23_OnlyLockWaits ==
    \A p \in LFrames :
        /\ lPc[p] = "done" =>
              lOutcome[p] \in {"hit", "computed", "func_error", "commit_error",
                               "timeout"}
        /\ (Running(p) /\ NobodyDone /\ NoChild(p)) => ENABLED LStep(p)

\* C23: every call of a process that is not killed ends.
C23_Terminates ==
    /\ []C23_OnlyLockWaits
    /\ \A p \in LFrames : Running(p) ~> (lPc[p] \in {"done", "crashed"})

\* a call has ended in a lock timeout while the holder, alive, is still in
\* func
C23_Witness ==
    \E p, q \in LFrames :
        /\ lPc[p] = "compute" /\ lLock = p /\ lParent[q] = 0 /\ lCrashes = 0
        /\ lPc[q] = "done" /\ lOutcome[q] = "timeout"

====
